---------------------------- MODULE Spec2Model ----------------------------
(***************************************************************************)
(* SAHAL money transfer tracker: the extraction pipeline                   *)
(*   raw text -> clean_input -> split on [SAHAL] -> per block              *)
(*   {parse_date_from_text, rule cascade} -> records, unmatched, date span *)
(* and the aggregation of the records                                      *)
(*   records -> fold per counterparty -> table -> summary                  *)
(* as implemented four times in the repository:                            *)
(*   "improved"  : sahal_improved.py   SAHALTransactionParser              *)
(*   "dashboard" : sahal_dashboard.py  extract_transactions                *)
(*   "grouped"   : sahal_grouped.py    extract_transactions                *)
(*   "parser"    : transaction_parser.py parse_transactions                *)
(*                                                                         *)
(* A text is a sequence of tokens.  A token is a character ("$", "(", a    *)
(* digit, a blank, a line break) or a word the patterns treat as a unit    *)
(* (the sentinel, a phrase of a rule, a name).  The regular expressions    *)
(* of the source are written as sequences of quantified token classes and  *)
(* run by a backtracking matcher with the semantics of Python's re.search. *)
(***************************************************************************)
EXTENDS Integers, Sequences, FiniteSets, TLC

(***************************************************************************)
(* Tokens and character classes                                            *)
(***************************************************************************)
SENTINEL == "[SAHAL]"

\* \d
Digits == {"0", "1", "2", "3", "4", "5", "6", "7", "8", "9"}

\* [\d.]
AmtChars == Digits \cup {"."}

\* \s, and what str.strip() removes
Spaces == {" ", "\n"}

Phrases == {"ayaad u dirtay", "ugu shubtay", "ka heshay", "Waxaad",
            "You have received airtime of", "from", "Kusoo dhawaaw",
            "Tixraac:", "Tar:"}

Weekdays == {"Monday", "Tuesday", "Wednesday", "Thursday", "Friday",
             "Saturday", "Sunday"}

Months == {"January", "February", "March", "April", "May", "June", "July",
           "August", "September", "October", "November", "December"}

Names == {"Ali", "Bob", "Shop"}

\* "MIDDOT" is U+00B7, the separator of the banner as the service writes it;
\* "U8DEF" and the pair "U00AC" "U2211" are the characters that stand in its
\* place in the patterns of sahal_improved.py and sahal_dashboard.py
Puncts == {"$", "(", ",", "/", ":", "AM", "PM",
           "MIDDOT", "U8DEF", "U00AC", "U2211"}

Alphabet == Digits \cup {"."} \cup Spaces \cup Phrases \cup Weekdays
            \cup Months \cup Names \cup Puncts \cup {SENTINEL}

\* the metacharacter . (every character but the line break)
Dot == Alphabet \ {"\n"}

\* the metacharacter . under re.DOTALL
DotAll == Alphabet


(***************************************************************************)
(* Regular expressions                                                     *)
(*                                                                         *)
(* A pattern is a sequence of elements; an element matches between min and *)
(* max tokens of the class cls (max = Unbounded: no upper limit), as many  *)
(* as possible unless lazy, and adds what it matched to group grp (0: to   *)
(* no group).                                                              *)
(***************************************************************************)
Unbounded == 0 - 1

Elem(cls, min, max, lazy, grp) ==
    [cls |-> cls, min |-> min, max |-> max, lazy |-> lazy, grp |-> grp]

Lit(tok)        == Elem({tok}, 1, 1, FALSE, 0)
OneOf(cls)      == Elem(cls, 1, 1, FALSE, 0)
Opt(cls)        == Elem(cls, 0, 1, FALSE, 0)
Plus(cls)       == Elem(cls, 1, Unbounded, FALSE, 0)
Star(cls)       == Elem(cls, 0, Unbounded, FALSE, 0)
LazyPlus(cls)   == Elem(cls, 1, Unbounded, TRUE, 0)
LazyStar(cls)   == Elem(cls, 0, Unbounded, TRUE, 0)
Rep(cls, lo, hi) == Elem(cls, lo, hi, FALSE, 0)
Grp(g, e)       == [e EXCEPT !.grp = g]

SetMin(S) == CHOOSE x \in S : \A y \in S : x <= y
SetMax(S) == CHOOSE x \in S : \A y \in S : x >= y

\* the number of consecutive tokens of s from position i that are in cls
RunLen(s, i, cls) ==
    IF i > Len(s) \/ s[i] \notin cls THEN 0
    ELSE CHOOSE len \in 1 .. Len(s) - i + 1 :
             /\ \A j \in i .. i + len - 1 : s[j] \in cls
             /\ i + len > Len(s) \/ s[i + len] \notin cls

\* the groups of a pattern are numbered 1..NGroups
NGroups == 7

NoGroups == [g \in 1 .. NGroups |-> <<>>]

NoMatch == [ok |-> FALSE, start |-> 0, end |-> 0, g |-> NoGroups]

\* The match of pat[k..] at position i of s that backtracking finds first:
\* ok, end (the position after the match) and the groups.  TryLen tries the
\* k-th element on n tokens and then, in steps of step up to last, on the
\* other lengths.
RECURSIVE MatchFrom(_, _, _, _)
RECURSIVE TryLen(_, _, _, _, _, _, _)
TryLen(pat, s, k, i, n, step, last) ==
    LET rest == MatchFrom(pat, s, k + 1, i + n)
        got  == SubSeq(s, i, i + n - 1)
    IN  IF rest.ok
        THEN [ok    |-> TRUE,
              start |-> i,
              end   |-> rest.end,
              g     |-> IF pat[k].grp = 0 THEN rest.g
                        ELSE [rest.g EXCEPT ![pat[k].grp] = got \o @]]
        ELSE IF n = last THEN NoMatch
        ELSE TryLen(pat, s, k, i, n + step, step, last)

MatchFrom(pat, s, k, i) ==
    IF k > Len(pat)
    THEN [ok |-> TRUE, start |-> i, end |-> i, g |-> NoGroups]
    ELSE LET e   == pat[k]
             run == RunLen(s, i, e.cls)
             hi  == IF e.max = Unbounded \/ run < e.max THEN run ELSE e.max
         IN  IF hi < e.min THEN NoMatch
             ELSE IF e.lazy THEN TryLen(pat, s, k, i, e.min, 1, hi)
             ELSE TryLen(pat, s, k, i, hi, 0 - 1, e.min)

\* the first match of pat at one of the positions starts, leftmost first
RECURSIVE FirstMatch(_, _, _)
FirstMatch(pat, s, starts) ==
    IF starts = {} THEN NoMatch
    ELSE LET j == SetMin(starts)
             m == MatchFrom(pat, s, 1, j)
         IN  IF m.ok THEN m ELSE FirstMatch(pat, s, starts \ {j})

\* re.search(pat, s) restricted to matches that start at or after from: the
\* match at the leftmost position where pat matches (a match starts where
\* the first element of pat, which no pattern of the program lets be empty,
\* finds a token of its class)
SearchFrom(pat, s, from) ==
    FirstMatch(pat, s, {j \in from .. Len(s) : s[j] \in pat[1].cls})

Search(pat, s) == SearchFrom(pat, s, 1)

\* re.sub(pat, '', s): s without its non-overlapping matches of pat, leftmost
\* first (no pattern of the program matches the empty string)
RECURSIVE SubFrom(_, _, _)
SubFrom(pat, s, from) ==
    LET m == SearchFrom(pat, s, from)
    IN  IF ~m.ok THEN SubSeq(s, from, Len(s))
        ELSE SubSeq(s, from, m.start - 1) \o SubFrom(pat, s, m.end)

Sub(pat, s) == SubFrom(pat, s, 1)

(***************************************************************************)
(* Strings and numbers                                                     *)
(***************************************************************************)
\* str.strip()
RECURSIVE LStrip(_)
LStrip(s) ==
    IF s # <<>> /\ Head(s) \in Spaces THEN LStrip(Tail(s)) ELSE s

RECURSIVE RStrip(_)
RStrip(s) ==
    IF s # <<>> /\ s[Len(s)] \in Spaces
    THEN RStrip(SubSeq(s, 1, Len(s) - 1)) ELSE s

Strip(s) == RStrip(LStrip(s))

\* str.split(SENTINEL): the pieces between the sentinels, empty ones included
\* (SplitFrom: the k-th piece, between the k-th and the next of the places
\* cuts, which are the places of the sentinels and the two ends)
SplitFrom(s, cuts, k) ==
    LET from == CHOOSE c \in cuts : Cardinality({d \in cuts : d < c}) = k - 1
        to   == CHOOSE c \in cuts : Cardinality({d \in cuts : d < c}) = k
    IN  SubSeq(s, from + 1, to - 1)

Split(s) ==
    LET cuts == {0, Len(s) + 1} \cup {j \in 1 .. Len(s) : s[j] = SENTINEL}
    IN  [k \in 1 .. Cardinality(cuts) - 1 |-> SplitFrom(s, cuts, k)]

DigitVal(c) ==
    CASE c = "0" -> 0 [] c = "1" -> 1 [] c = "2" -> 2 [] c = "3" -> 3
      [] c = "4" -> 4 [] c = "5" -> 5 [] c = "6" -> 6 [] c = "7" -> 7
      [] c = "8" -> 8 [] c = "9" -> 9

\* int(s) of a string of digits
RECURSIVE IntOf(_)
IntOf(s) ==
    IF s = <<>> THEN 0
    ELSE 10 * IntOf(SubSeq(s, 1, Len(s) - 1)) + DigitVal(s[Len(s)])

RECURSIVE Pow10(_)
Pow10(n) == IF n = 0 THEN 1 ELSE 10 * Pow10(n - 1)

\* An amount is held as a whole number of units of 10^-FracDigits; the
\* amounts of the inputs have at most FracDigits digits after the point.
FracDigits == 3

\* float(s) for s matched by [\d.]+ : a ValueError (ok = FALSE) unless s has
\* at least one digit and at most one point
ParseFloat(s) ==
    LET dots   == {i \in 1 .. Len(s) : s[i] = "."}
        digs   == {i \in 1 .. Len(s) : s[i] \in Digits}
        dot    == IF dots = {} THEN Len(s) + 1 ELSE SetMin(dots)
        whole  == SubSeq(s, 1, dot - 1)
        frac   == SubSeq(s, dot + 1, Len(s))
        fracN  == IF Len(frac) > FracDigits
                  THEN SubSeq(frac, 1, FracDigits) ELSE frac
    IN  IF Cardinality(dots) > 1 \/ digs = {} \/ digs \cup dots # DOMAIN s
        THEN [ok |-> FALSE, val |-> 0]
        ELSE [ok  |-> TRUE,
              val |-> IntOf(whole) * Pow10(FracDigits)
                      + IntOf(fracN) * Pow10(FracDigits - Len(fracN))]

(***************************************************************************)
(* The rule tables                                                         *)
(***************************************************************************)
\* the least number of digits of a phone number, \d{9,}
MinPhoneLen == 9

\* r"\$ ?([\d.]+) ayaad u dirtay (.+?)\("
SentPersonPat ==
    << Lit("$"), Opt({" "}), Grp(1, Plus(AmtChars)), Lit(" "),
       Lit("ayaad u dirtay"), Lit(" "), Grp(2, LazyPlus(Dot)), Lit("(") >>

\* the send-airtime pattern with (\d+) for the number: any run of digits
SentAirtimePatAnyDigits ==
    << Lit("Waxaad"), Lit(" "), Lit("$"), Grp(1, Plus(AmtChars)), Lit(" "),
       Lit("ugu shubtay"), Lit(" "), Grp(2, Plus(Digits)) >>

\* r"Waxaad \$([\d.]+) ugu shubtay (\d{9,})"
SentAirtimePat ==
    << Lit("Waxaad"), Lit(" "), Lit("$"), Grp(1, Plus(AmtChars)), Lit(" "),
       Lit("ugu shubtay"), Lit(" "),
       Grp(2, Rep(Digits, MinPhoneLen, Unbounded)) >>

\* r"Waxaad \$([\d.]+) ka heshay (.+?)\("
ReceivedPersonPat ==
    << Lit("Waxaad"), Lit(" "), Lit("$"), Grp(1, Plus(AmtChars)), Lit(" "),
       Lit("ka heshay"), Lit(" "), Grp(2, LazyPlus(Dot)), Lit("(") >>

\* r"You have received airtime of \$([\d.]+) from (\d{9,})"
ReceivedAirtimePat ==
    << Lit("You have received airtime of"), Lit(" "), Lit("$"),
       Grp(1, Plus(AmtChars)), Lit(" "), Lit("from"), Lit(" "),
       Grp(2, Rep(Digits, MinPhoneLen, Unbounded)) >>

\* r"Kusoo dhawaaw\s+(.+?)\s+Tixraac:\s+\d+,\s+\$([\d.]+)\s+ayaad u dirtay"
\* (any: the class of the metacharacter . , Dot or, under re.DOTALL, DotAll)
BusinessTail ==
    << Plus(Spaces), Lit("Tixraac:"), Plus(Spaces), Plus(Digits), Lit(","),
       Plus(Spaces), Lit("$"), Grp(2, Plus(AmtChars)), Plus(Spaces),
       Lit("ayaad u dirtay") >>

BusinessPat(any) ==
    << Lit("Kusoo dhawaaw"), Plus(Spaces), Grp(1, LazyPlus(any)) >>
    \o BusinessTail

\* r"Kusoo dhawaaw\s+(.+?)\s+\d+\s+Tixraac:\s+\d+,\s+\$([\d.]+)\s+ayaad u dirtay"
\* and, with least = MinPhoneLen, the same with \d{9,} for \d+
BusinessPhonePat(least) ==
    << Lit("Kusoo dhawaaw"), Plus(Spaces), Grp(1, LazyPlus(Dot)),
       Plus(Spaces), Rep(Digits, least, Unbounded) >>
    \o BusinessTail

\* r"\$\s*([\d.]+)\s*(ayaad u dirtay|ugu shubtay)"
ParserSentPat ==
    << Lit("$"), Star(Spaces), Grp(1, Plus(AmtChars)), Star(Spaces),
       Grp(2, OneOf({"ayaad u dirtay", "ugu shubtay"})) >>

\* r"You have received airtime of \$(\d+\.?\d*)"
ParserReceivedPat ==
    << Lit("You have received airtime of"), Lit(" "), Lit("$"),
       Grp(1, Plus(Digits)), Grp(1, Opt({"."})), Grp(1, Star(Digits)) >>

\* A rule: its pattern, the type and category of its records, the groups that
\* hold the amount and the name (0: the record has no name), and whether the
\* name is stripped.
Rule(pat, type, category, amt, name, strip) ==
    [pat |-> pat, type |-> type, category |-> category,
     amt |-> amt, name |-> name, strip |-> strip]

\* SAHALTransactionParser.transaction_patterns
transaction_patterns ==
    << Rule(SentPersonPat,      "sent",     "person",  1, 2, TRUE),
       Rule(SentAirtimePat,     "sent",     "airtime", 1, 2, TRUE),
       Rule(ReceivedPersonPat,  "received", "person",  1, 2, TRUE),
       Rule(ReceivedAirtimePat, "received", "airtime", 1, 2, TRUE) >>

\* the if/elif chain of the dashboard's extract_transactions
DashboardRules ==
    << Rule(SentPersonPat,       "sent",     "person",   1, 2, TRUE),
       Rule(SentAirtimePat,      "sent",     "airtime",  1, 2, FALSE),
       Rule(ReceivedPersonPat,   "received", "person",   1, 2, TRUE),
       Rule(ReceivedAirtimePat,  "received", "airtime",  1, 2, FALSE),
       Rule(BusinessPat(Dot),    "sent",     "business", 2, 1, TRUE),
       Rule(BusinessPhonePat(1), "sent",     "business", 2, 1, TRUE),
       Rule(BusinessPat(DotAll), "sent",     "business", 2, 1, TRUE),
       Rule(BusinessPhonePat(MinPhoneLen), "sent", "business", 2, 1, TRUE) >>

\* the chain of sahal_grouped's extract_transactions (its records have no
\* category; the one written here is the comment of the source)
GroupedRules ==
    << Rule(SentPersonPat,       "sent",     "person",   1, 2, TRUE),
       Rule(SentAirtimePat,      "sent",     "airtime",  1, 2, FALSE),
       Rule(ReceivedPersonPat,   "received", "person",   1, 2, TRUE),
       Rule(ReceivedAirtimePat,  "received", "airtime",  1, 2, FALSE) >>

\* the chain of transaction_parser's parse_transactions
ParserRules ==
    << Rule(ParserSentPat,     "sent",     "none", 1, 0, FALSE),
       Rule(ParserReceivedPat, "received", "none", 1, 0, FALSE) >>

\* the name of a record without the strip(): match.group(n) as it is
RuleNameRaw(r, cap) == cap

\* the name of a record: match.group(n).strip(), or match.group(n) as it is
RuleName(r, cap) == IF r.strip THEN Strip(cap) ELSE cap

\* validate_amount without its test amount > 0: None only when float() raises
validate_amountAnySign(amount_str) == ParseFloat(amount_str)

\* SAHALTransactionParser.validate_amount: None (ok = FALSE) when float()
\* raises or the amount is not positive
validate_amount(amount_str) ==
    LET f == ParseFloat(amount_str)
    IN  IF f.ok /\ f.val > 0 THEN f ELSE [ok |-> FALSE, val |-> 0]

\* SAHALTransactionParser.validate_phone_number: re.match(r'^\d{9,}$', phone)
validate_phone_number(phone) ==
    /\ Len(phone) >= MinPhoneLen
    /\ \A j \in 1 .. Len(phone) : phone[j] \in Digits

NoTx(kind) ==
    [kind |-> kind, rule |-> 0, type |-> "", name |-> <<>>, amount |-> 0,
     category |-> ""]

\* The outcome of the rules from the k-th on for a block: kind "tx" with the
\* fields of the record of the first rule that takes the block, "none" when
\* no rule does, "raise" when float() raises ValueError.  validating: the
\* loop of SAHALTransactionParser, which validates and goes on to the next
\* rule; otherwise the chains of the other three modules, which convert with
\* float() and stop at the first pattern that matches.
RECURSIVE Cascade(_, _, _, _)
Cascade(rules, k, validating, block) ==
    IF k > Len(rules) THEN NoTx("none")
    ELSE LET r     == rules[k]
             m     == Search(r.pat, block)
             cap   == IF r.name = 0 THEN <<>> ELSE m.g[r.name]
             name  == RuleName(r, cap)
             f     == ParseFloat(m.g[r.amt])
             tx(a) == [kind |-> "tx", rule |-> k, type |-> r.type,
                       name |-> name, amount |-> a, category |-> r.category]
         IN  IF ~m.ok THEN Cascade(rules, k + 1, validating, block)
             ELSE IF validating
             THEN IF ~validate_amount(m.g[r.amt]).ok
                  THEN Cascade(rules, k + 1, validating, block)
                  ELSE IF r.category = "airtime" /\ ~validate_phone_number(name)
                  THEN Cascade(rules, k + 1, validating, block)
                  ELSE tx(validate_amount(m.g[r.amt]).val)
             ELSE IF ~f.ok THEN NoTx("raise") ELSE tx(f.val)

RulesOf(m) ==
    CASE m = "improved"  -> transaction_patterns
      [] m = "dashboard" -> DashboardRules
      [] m = "grouped"   -> GroupedRules
      [] m = "parser"    -> ParserRules

Classify(m, block) == Cascade(RulesOf(m), 1, m = "improved", block)

(***************************************************************************)
(* clean_input and parse_date_from_text                                    *)
(***************************************************************************)
\* what stands between the year and the time in a module's banner patterns
BannerSep(m) ==
    CASE m = "improved"  -> << Lit("U8DEF") >>
      [] m = "dashboard" -> << Lit("U00AC"), Lit("U2211") >>
      [] m = "grouped"   -> << Lit("MIDDOT") >>
      [] m = "parser"    -> << Lit("MIDDOT") >>

\* r'(Monday|...|Sunday), .*?\d{4} <sep> \d{1,2}:\d{2}(?:\u202F|\s)?(?:AM|PM)'
CleanPat(m) ==
    << OneOf(Weekdays), Lit(","), Lit(" "), LazyStar(Dot), Rep(Digits, 4, 4),
       Lit(" ") >>
    \o BannerSep(m)
    \o << Lit(" "), Rep(Digits, 1, 2), Lit(":"), Rep(Digits, 2, 2),
          Opt(Spaces), OneOf({"AM", "PM"}) >>

\* clean_input: the text without its banners; SAHALTransactionParser and the
\* dashboard return "" for no text and strip the result
clean_input(m, text) ==
    IF m \in {"improved", "dashboard"}
    THEN IF text = <<>> THEN <<>> ELSE Strip(Sub(CleanPat(m), text))
    ELSE Sub(CleanPat(m), text)

\* r'(Monday|...), (January|...) (\d{1,2}), (\d{4}) <sep> (\d{1,2}):(\d{2})(?:\u202F|\s)?(AM|PM)'
DatePat1(m) ==
    << Grp(1, OneOf(Weekdays)), Lit(","), Lit(" "), Grp(2, OneOf(Months)),
       Lit(" "), Grp(3, Rep(Digits, 1, 2)), Lit(","), Lit(" "),
       Grp(4, Rep(Digits, 4, 4)), Lit(" ") >>
    \o BannerSep(m)
    \o << Lit(" "), Grp(5, Rep(Digits, 1, 2)), Lit(":"),
          Grp(6, Rep(Digits, 2, 2)), Opt(Spaces), Grp(7, OneOf({"AM", "PM"})) >>

\* r'Tar: (\d{1,2})/(\d{1,2})/(\d{2}) (\d{1,2}):(\d{2}):(\d{2})'
DatePat2 ==
    << Lit("Tar:"), Lit(" "), Grp(1, Rep(Digits, 1, 2)), Lit("/"),
       Grp(2, Rep(Digits, 1, 2)), Lit("/"), Grp(3, Rep(Digits, 2, 2)),
       Lit(" "), Grp(4, Rep(Digits, 1, 2)), Lit(":"),
       Grp(5, Rep(Digits, 2, 2)), Lit(":"), Grp(6, Rep(Digits, 2, 2)) >>

month_map(name) ==
    CASE name = "January" -> 1 [] name = "February" -> 2 [] name = "March" -> 3
      [] name = "April" -> 4 [] name = "May" -> 5 [] name = "June" -> 6
      [] name = "July" -> 7 [] name = "August" -> 8 [] name = "September" -> 9
      [] name = "October" -> 10 [] name = "November" -> 11
      [] name = "December" -> 12

IsLeap(y) == (y % 4 = 0 /\ y % 100 # 0) \/ y % 400 = 0

DaysInMonth(y, mo) ==
    IF mo = 2 THEN (IF IsLeap(y) THEN 29 ELSE 28)
    ELSE IF mo \in {4, 6, 9, 11} THEN 30 ELSE 31

\* None
NoDate == [some |-> FALSE, y |-> 0, mo |-> 0, d |-> 0, h |-> 0, mi |-> 0,
           s |-> 0]

\* datetime(y, mo, d, h, mi, s): NoDate stands for the ValueError of a value
\* out of range
datetime(y, mo, d, h, mi, s) ==
    IF /\ y \in 1 .. 9999
       /\ mo \in 1 .. 12
       /\ d >= 1 /\ d <= DaysInMonth(y, mo)
       /\ h \in 0 .. 23 /\ mi \in 0 .. 59 /\ s \in 0 .. 59
    THEN [some |-> TRUE, y |-> y, mo |-> mo, d |-> d, h |-> h, mi |-> mi,
          s |-> s]
    ELSE NoDate

\* the hour of the 24-hour clock for an hour written with AM or PM
Hour24(hour, ampm) ==
    IF ampm = "PM" /\ hour # 12 THEN hour + 12
    ELSE IF ampm = "AM" /\ hour = 12 THEN 0
    ELSE hour

\* parse_date_from_text: the datetime of the first banner if it is one, else
\* that of the first Tar: stamp if it is one, else None
parse_date_from_text(m, text) ==
    LET match1 == Search(DatePat1(m), text)
        date1  == datetime(IntOf(match1.g[4]), month_map(match1.g[2][1]),
                           IntOf(match1.g[3]),
                           Hour24(IntOf(match1.g[5]), match1.g[7][1]),
                           IntOf(match1.g[6]), 0)
        match2 == Search(DatePat2, text)
        date2  == datetime(2000 + IntOf(match2.g[3]), IntOf(match2.g[2]),
                           IntOf(match2.g[1]), IntOf(match2.g[4]),
                           IntOf(match2.g[5]), IntOf(match2.g[6]))
    IN  IF text = <<>> THEN NoDate
        ELSE IF match1.ok /\ date1.some THEN date1
        ELSE IF match2.ok /\ date2.some THEN date2
        ELSE NoDate

\* datetime.toordinal(): the days from 0001-01-01, which is day 1
RECURSIVE DaysBeforeMonth(_, _)
DaysBeforeMonth(y, mo) ==
    IF mo = 1 THEN 0 ELSE DaysBeforeMonth(y, mo - 1) + DaysInMonth(y, mo - 1)

ToOrdinal(dt) ==
    LET y1 == dt.y - 1
    IN  y1 * 365 + (y1 \div 4) - (y1 \div 100) + (y1 \div 400)
        + DaysBeforeMonth(dt.y, dt.mo) + dt.d

SecondOfDay(dt) == (dt.h * 60 + dt.mi) * 60 + dt.s

\* a <= b for datetimes
DateLeq(a, b) ==
    \/ ToOrdinal(a) < ToOrdinal(b)
    \/ ToOrdinal(a) = ToOrdinal(b) /\ SecondOfDay(a) <= SecondOfDay(b)

\* min(dates), max(dates): the first least and the first greatest element
MinDate(dates) ==
    dates[SetMin({i \in 1 .. Len(dates) :
                    \A j \in 1 .. Len(dates) : DateLeq(dates[i], dates[j])})]

MaxDate(dates) ==
    dates[SetMin({i \in 1 .. Len(dates) :
                    \A j \in 1 .. Len(dates) : DateLeq(dates[j], dates[i])})]

\* the difference of the calendar days of a and b, whatever their times
DaysBetweenDates(a, b) == ToOrdinal(b) - ToOrdinal(a)

\* (b - a).days for a <= b
DaysBetween(a, b) ==
    ToOrdinal(b) - ToOrdinal(a)
    - (IF SecondOfDay(b) < SecondOfDay(a) THEN 1 ELSE 0)

\* {}
EmptyRange == [found |-> FALSE, earliest_date |-> NoDate,
               latest_date |-> NoDate, date_span_days |-> 0,
               total_dates_found |-> 0]

\* the date_range of extract_transactions
DateRange(dates) ==
    IF dates = <<>> THEN EmptyRange
    ELSE [found             |-> TRUE,
          earliest_date     |-> MinDate(dates),
          latest_date       |-> MaxDate(dates),
          date_span_days    |-> DaysBetween(MinDate(dates), MaxDate(dates)),
          total_dates_found |-> Len(dates)]

(***************************************************************************)
(* The inputs: every text made of at most MaxChunks of these pieces        *)
(***************************************************************************)
MaxChunks == 3

Digs(n) == SubSeq(<<"2", "5", "2", "9", "0", "7", "1", "2", "3", "4">>, 1, n)

\* "$<amt> ayaad u dirtay Ali("
SentTo(amt) ==
    <<"$">> \o amt \o <<" ", "ayaad u dirtay", " ", "Ali", "(">>

\* "Waxaad $<amt> ugu shubtay <n digits>"
AirtimeTo(amt, n) ==
    <<"Waxaad", " ", "$">> \o amt \o <<" ", "ugu shubtay", " ">> \o Digs(n)

\* "You have received airtime of $<amt> from <n digits>"
AirtimeFrom(amt, n) ==
    <<"You have received airtime of", " ", "$">> \o amt
    \o <<" ", "from", " ">> \o Digs(n)

Chunks ==
    { <<SENTINEL>>,
      <<" ">>,
      SentTo(<<"5">>),
      SentTo(<<"0">>),
      SentTo(<<"1", ".", "2", ".", "3">>),
      \* "Waxaad $2.50 ka heshay  Bob ("
      <<"Waxaad", " ", "$", "2", ".", "5", "0", " ", "ka heshay", " ", " ",
        "Bob", " ", "(">>,
      AirtimeTo(<<"1">>, MinPhoneLen),
      AirtimeTo(<<"1">>, MinPhoneLen - 1),
      AirtimeFrom(<<"3">>, MinPhoneLen + 1),
      AirtimeFrom(<<"3">>, MinPhoneLen - 1),
      \* "Kusoo dhawaaw Shop Tixraac: 77, $5 ayaad u dirtay"
      <<"Kusoo dhawaaw", " ", "Shop", " ", "Tixraac:", " ", "7", "7", ",",
        " ", "$", "5", " ", "ayaad u dirtay">>,
      \* " Shop("
      <<" ", "Shop", "(">>,
      \* "\nTar: 17/10/23 13:35:59"
      <<"\n", "Tar:", " ", "1", "7", "/", "1", "0", "/", "2", "3", " ",
        "1", "3", ":", "3", "5", ":", "5", "9">> }

RECURSIVE Concat(_)
Concat(cs) == IF cs = <<>> THEN <<>> ELSE Head(cs) \o Concat(Tail(cs))

Texts ==
    { Concat(cs) : cs \in UNION { [1 .. n -> Chunks] : n \in 0 .. MaxChunks } }

\* the four modules, and the two whose extractor returns records, unmatched
\* blocks and a date span
Impls == {"improved", "dashboard", "grouped", "parser"}

Full == {"improved", "dashboard"}

(***************************************************************************)
(* The inputs with dates: banners and Tar: stamps                          *)
(***************************************************************************)
\* the most sections of a text with dates
MaxSections == 3

\* the separator of a banner: "MIDDOT" as the service writes it (the examples
\* of sahal_grouped.py and transaction_parser.py), or what the patterns of
\* the module m have in its place
Seps(m) ==
    IF m = "improved" THEN { <<"MIDDOT">>, <<"U8DEF">> }
    ELSE IF m = "dashboard" THEN { <<"MIDDOT">>, <<"U00AC", "U2211">> }
    ELSE { <<"MIDDOT">> }

\* ", Month D, 2023 <sep> H:MM AM": a banner after its weekday
BannerRest(month, day, sep, hour, minute, ampm) ==
    <<",", " ", month, " ">> \o day \o <<",", " ", "2", "0", "2", "3", " ">>
    \o sep \o <<" ">> \o hour \o <<":">> \o minute \o <<" ", ampm>>

Banner(month, day, sep, hour, minute, ampm) ==
    <<"Tuesday">> \o BannerRest(month, day, sep, hour, minute, ampm)

\* the hours and halves of the day written in the banners
Clock ==
    { << <<"1", "2">>, "AM" >>, << <<"1", "2">>, "PM" >>,
      << <<"1">>, "PM" >>, << <<"1", "1">>, "AM" >>,
      << <<"0">>, "PM" >>, << <<"1", "3">>, "PM" >> }

\* banners of October 17 at every time of Clock, and one of February 30
Banners(m) ==
    { Banner("October", <<"1", "7">>, sep, c[1], <<"0", "5">>, c[2]) :
        sep \in Seps(m), c \in Clock }
    \cup { Banner("February", <<"3", "0">>, sep, <<"1">>, <<"0", "5">>, "PM") :
             sep \in Seps(m) }

\* "Tar: DD/MM/23 HH:35:59"
Tar(day, month, hour) ==
    <<"Tar:", " ">> \o day \o <<"/">> \o month
    \o <<"/", "2", "3", " ">> \o hour \o <<":", "3", "5", ":", "5", "9">>

\* October 17 at 13:35:59, October 19 at 09:35:59 and February 31
Tars ==
    { Tar(<<"1", "7">>, <<"1", "0">>, <<"1", "3">>),
      Tar(<<"1", "9">>, <<"1", "0">>, <<"0", "9">>),
      Tar(<<"3", "1">>, <<"0", "2">>, <<"1", "3">>) }

\* a block with a banner, a Tar: stamp, or both in either order
Stamped(m) ==
    Banners(m) \cup Tars
    \cup { b \o <<" ">> \o t : b \in Banners(m), t \in Tars }
    \cup { t \o <<"\n">> \o b : b \in Banners(m), t \in Tars }

\* a banner within the pieces of another one
Nested(m) ==
    { <<"Tuesday">> \o b \o SubSeq(b, 2, Len(b)) :
        b \in { Banner("October", <<"1", "7">>, sep, <<"1">>, <<"0", "5">>,
                       "PM") : sep \in Seps(m) } }

\* the sections of the texts of several sections: a transaction or not, with
\* a Tar: stamp or a banner or none
Sections(m) ==
    LET tx   == SentTo(<<"5">>)
        junk == <<"Shop", "(">>
        tars == { Tar(<<"1", "7">>, <<"1", "0">>, <<"1", "3">>),
                  Tar(<<"1", "9">>, <<"1", "0">>, <<"0", "9">>) }
    IN  { tx, junk }
        \cup { tx \o <<" ">> \o t : t \in tars }
        \cup tars
        \cup { Banner("October", <<"1", "7">>, sep, <<"1">>, <<"0", "5">>,
                      "PM") \o <<"\n">> \o tx : sep \in Seps(m) }

\* "[SAHAL]\n" before each section
RECURSIVE Joined(_)
Joined(ss) ==
    IF ss = <<>> THEN <<>>
    ELSE <<SENTINEL, "\n">> \o Head(ss) \o <<"\n">> \o Joined(Tail(ss))

\* the texts with dates given to the module m
DateTexts(m) ==
    Stamped(m) \cup Nested(m)
    \cup { Joined(ss) :
             ss \in UNION { [1 .. n -> Sections(m)] : n \in 0 .. MaxSections } }

\* "2023 <sep> 1:05 PM": the year and the time of a banner
YearTime(sep) ==
    <<"2", "0", "2", "3", " ">> \o sep \o <<" ", "1", ":", "0", "5", " ", "PM">>

\* texts with a weekday name and a later year and time: on one line with a
\* transaction between them, after the sentinel or before it or after
\* another section; on two lines; and banners on lines of their own or at the
\* end of a section's line
LineTexts(m) ==
    { <<>>, <<SENTINEL, " ">> \o SentTo(<<"5">>) }
    \cup UNION {
        { <<SENTINEL, " ", "Tuesday", ",", " ">> \o SentTo(<<"5">>) \o <<" ">>
            \o YearTime(sep),
          <<"Tuesday", ",", " ", SENTINEL, " ">> \o SentTo(<<"5">>) \o <<" ">>
            \o YearTime(sep),
          <<SENTINEL, " ">> \o SentTo(<<"5">>)
            \o <<" ", "Tuesday", ",", " ", SENTINEL, " ">>
            \o AirtimeTo(<<"1">>, MinPhoneLen) \o <<" ">> \o YearTime(sep),
          <<SENTINEL, " ", "Tuesday", ",", " ", "\n">> \o SentTo(<<"5">>)
            \o <<" ">> \o YearTime(sep),
          <<SENTINEL, "\n">>
            \o Banner("October", <<"1", "7">>, sep, <<"1">>, <<"0", "5">>, "PM")
            \o <<"\n">> \o SentTo(<<"5">>),
          <<SENTINEL, " ">> \o SentTo(<<"5">>) \o <<" ">>
            \o Banner("October", <<"1", "7">>, sep, <<"1">>, <<"0", "5">>, "PM")
            \o <<SENTINEL, " ", "Shop", "(">> } : sep \in Seps(m) }

\* what stands between the phrase of a person rule and "(": a name, a name
\* within blanks, blanks only, a line break, nothing
Written == { <<" ", "Ali">>, <<" ", " ", "Bob", " ">>, <<" ", " ">>,
             <<" ", " ", " ">>, <<" ", "\n">>, <<" ">> }

\* "$5 ayaad u dirtay<w>(", "Waxaad $5 ka heshay<w>("
PersonSections ==
    { <<"$", "5", " ", "ayaad u dirtay">> \o w \o <<"(">> : w \in Written }
    \cup { <<"Waxaad", " ", "$", "5", " ", "ka heshay">> \o w \o <<"(">> :
             w \in Written }

\* texts of one section of a person rule, and of a section after a sent one
NameTexts ==
    { <<SENTINEL, " ">> \o s : s \in PersonSections }
    \cup { <<SENTINEL, " ">> \o SentTo(<<"5">>) \o <<"\n", SENTINEL, " ">> \o s :
             s \in PersonSections }

\* the texts of a kind given to the module m: those with dates, those of
\* lines, those of names, or those of chunks, the same for every module
InputsOf(kind, m) ==
    CASE kind = "dates" -> DateTexts(m)
      [] kind = "lines" -> LineTexts(m)
      [] kind = "names" -> NameTexts
      [] OTHER          -> Texts

(***************************************************************************)
(* The state: one run of a module's pipeline                               *)
(***************************************************************************)
VARIABLES
    impl,               \* the module that runs
    raw,                \* the text the caller holds
    text,               \* the argument of extract_transactions
    pc,                 \* where the run is
    blocks,             \* the blocks of the text
    i,                  \* the number of blocks the loop has handled
    transactions,       \* the records so far
    unmatched_blocks,   \* the unmatched blocks so far
    dates,              \* the dates found so far
    ret,                \* the tuple extract_transactions returned
    data,               \* the aggregate: one entry per counterparty, in the
                        \* order of their first records
    folded,             \* the number of records folded into data
    df,                 \* the per-counterparty table
    stats,              \* the summary
    pending_raw_data,   \* st.session_state.pending_raw_data
    raw_data_key_counter,   \* st.session_state.raw_data_key_counter
    pasted_csv,         \* what the text area of the form gives the script
    submit_button       \* what the button of the form gives the script

vars == <<impl, raw, text, pc, blocks, i, transactions, unmatched_blocks,
          dates, ret, data, folded, df, stats, pending_raw_data,
          raw_data_key_counter, pasted_csv, submit_button>>

Init ==
    /\ impl = "none"
    /\ raw = <<>>
    /\ text = <<>>
    /\ pc = "idle"
    /\ blocks = <<>>
    /\ i = 0
    /\ transactions = <<>>
    /\ unmatched_blocks = <<>>
    /\ dates = <<>>
    /\ ret = <<>>
    /\ data = <<>>
    /\ folded = 0
    /\ df = <<>>
    /\ stats = <<>>
    /\ pending_raw_data = <<>>
    /\ raw_data_key_counter = 0
    /\ pasted_csv = <<>>
    /\ submit_button = FALSE

\* the dashboard's session state and the values of the widgets of its form
session == <<pending_raw_data, raw_data_key_counter, pasted_csv, submit_button>>

\* what the aggregation holds
agg == <<data, folded, df, stats>>

locals == <<blocks, i, transactions, unmatched_blocks, dates, ret, agg>>

\* main() has read the input
ReadInput(m, t) ==
    /\ pc = "idle"
    /\ impl' = m
    /\ raw' = t
    /\ pc' = "main"
    /\ UNCHANGED <<session, text, locals>>

\* main(): cleaned = clean_input(raw_text)
CleanInput ==
    /\ pc = "main"
    /\ text' = clean_input(impl, raw)
    /\ pc' = "call"
    /\ UNCHANGED <<session, impl, raw, locals>>

\* extract_transactions called with a text as it is
CallExtract(m, t) ==
    /\ pc = "idle"
    /\ impl' = m
    /\ raw' = t
    /\ text' = t
    /\ pc' = "call"
    /\ UNCHANGED <<session, locals>>

\* what a module's extract_transactions returns for no text, <<>> if it has
\* no such early return
EarlyReturn(m) ==
    CASE m = "improved"  -> << <<>>, <<>>, EmptyRange >>
      [] m = "dashboard" -> << <<>>, <<>> >>
      [] m = "grouped"   -> <<>>
      [] m = "parser"    -> <<>>

\* the comprehension without the strip() of the pieces it keeps:
\* [b for b in text.split('[SAHAL]') if b.strip()]
SplitBlocksUntrimmed(t) ==
    SelectSeq(Split(t), LAMBDA b : Strip(b) # <<>>)

\* [b.strip() for b in text.split('[SAHAL]') if b.strip()]
SplitBlocks(t) ==
    LET pieces == Split(t)
        kept   == SelectSeq(pieces, LAMBDA b : Strip(b) # <<>>)
    IN  [k \in 1 .. Len(kept) |-> Strip(kept[k])]

\* extract_transactions with its lists kept from one call to the next, as
\* attributes of the parser would be
ExtractBeginKeeping ==
    /\ pc = "call"
    /\ IF text = <<>> /\ EarlyReturn(impl) # <<>>
       THEN /\ ret' = EarlyReturn(impl)
            /\ pc' = "returned"
            /\ UNCHANGED <<blocks, i>>
       ELSE /\ blocks' = SplitBlocks(text)
            /\ i' = 0
            /\ pc' = "loop"
            /\ UNCHANGED ret
    /\ UNCHANGED <<session, impl, raw, text, transactions, unmatched_blocks, dates, agg>>

\* extract_transactions up to its loop
ExtractBegin ==
    /\ pc = "call"
    /\ IF text = <<>> /\ EarlyReturn(impl) # <<>>
       THEN /\ ret' = EarlyReturn(impl)
            /\ pc' = "returned"
            /\ UNCHANGED <<blocks, i, transactions, unmatched_blocks, dates>>
       ELSE /\ blocks' = SplitBlocks(text)
            /\ transactions' = <<>>
            /\ unmatched_blocks' = <<>>
            /\ dates' = <<>>
            /\ i' = 0
            /\ pc' = "loop"
            /\ UNCHANGED ret
    /\ UNCHANGED <<session, impl, raw, text, agg>>

\* the record a module builds from the outcome c of the rules
Record(m, c, index, block, date) ==
    CASE m = "improved"  ->
           [type |-> c.type, name |-> c.name, amount |-> c.amount,
            category |-> c.category, block_index |-> index,
            raw_block |-> block, date |-> date]
      [] m = "dashboard" ->
           [type |-> c.type, name |-> c.name, amount |-> c.amount,
            category |-> c.category, date |-> date, raw_block |-> block]
      [] m = "grouped"   ->
           [type |-> c.type, name |-> c.name, amount |-> c.amount]
      [] m = "parser"    ->
           [type |-> c.type, amount |-> c.amount, raw |-> block]

\* one turn of the loop over the blocks
ClassifyBlock ==
    /\ pc = "loop"
    /\ i < Len(blocks)
    /\ LET block      == Strip(blocks[i + 1])
           block_date == IF impl \in {"improved", "dashboard"}
                         THEN parse_date_from_text(impl, block) ELSE NoDate
           c          == Classify(impl, block)
       IN  /\ dates' = IF block_date.some THEN Append(dates, block_date)
                       ELSE dates
           /\ IF c.kind = "raise"
              THEN /\ pc' = "raised"
                   /\ UNCHANGED <<i, transactions, unmatched_blocks>>
              ELSE /\ pc' = "loop"
                   /\ i' = i + 1
                   /\ transactions' =
                        IF c.kind = "tx"
                        THEN Append(transactions,
                                    Record(impl, c, i + 1, block, block_date))
                        ELSE transactions
                   /\ unmatched_blocks' =
                        IF c.kind = "none" /\ impl # "grouped"
                        THEN Append(unmatched_blocks, block)
                        ELSE unmatched_blocks
    /\ UNCHANGED <<session, impl, raw, text, blocks, ret, agg>>

\* the return of extract_transactions after its loop
ExtractReturn ==
    /\ pc = "loop"
    /\ i = Len(blocks)
    /\ ret' = CASE impl \in {"improved", "dashboard"} ->
                     <<transactions, unmatched_blocks, DateRange(dates)>>
                [] impl = "grouped" -> <<transactions>>
                [] impl = "parser"  -> <<transactions, unmatched_blocks>>
    /\ pc' = "returned"
    /\ UNCHANGED <<session, impl, raw, text, blocks, i, transactions, unmatched_blocks,
                   dates, agg>>

\* the number of values the caller of a module's extractor takes from it
Unpacked(m) ==
    CASE m = "improved"  -> 3
      [] m = "dashboard" -> 3
      [] m = "grouped"   -> 1
      [] m = "parser"    -> 2

\* transactions, unmatched, date_range = extract_transactions(cleaned)
Unpack ==
    /\ pc = "returned"
    /\ pc' = IF Len(ret) = Unpacked(impl) THEN "done" ELSE "raised"
    /\ UNCHANGED <<session, impl, raw, text, locals>>

\* the run is over; the next one starts with nothing of it
NextRun ==
    /\ pc \in {"done", "raised", "summary"}
    /\ impl' = "none"
    /\ raw' = <<>>
    /\ text' = <<>>
    /\ pc' = "idle"
    /\ blocks' = <<>>
    /\ i' = 0
    /\ transactions' = <<>>
    /\ unmatched_blocks' = <<>>
    /\ dates' = <<>>
    /\ ret' = <<>>
    /\ data' = <<>>
    /\ folded' = 0
    /\ df' = <<>>
    /\ stats' = <<>>
    /\ UNCHANGED session

\* the steps of the runs of the modules ms on the texts of a kind
Next(ms, kind) ==
    \/ pc = "idle" /\ \E m \in ms : \E t \in InputsOf(kind, m) : ReadInput(m, t)
    \/ CleanInput
    \/ pc = "idle" /\ \E m \in ms : \E t \in InputsOf(kind, m) : CallExtract(m, t)
    \/ ExtractBegin
    \/ ClassifyBlock
    \/ ExtractReturn
    \/ Unpack
    \/ NextRun

\* the runs of SAHALTransactionParser and of the dashboard
Spec == Init /\ [][Next(Full, "chunks")]_vars

\* the runs of the four modules
SpecAll == Init /\ [][Next(Impls, "chunks")]_vars

\* the runs of SAHALTransactionParser and of the dashboard on texts with dates
SpecDates == Init /\ [][Next(Full, "dates")]_vars

(***************************************************************************)
(* The aggregation: the fold per counterparty, the table, the summary      *)
(*                                                                         *)
(* The sums of the source are binary floats and the model's are decimals.  *)
(* The two part at round(): where the decimal sum lies exactly between two *)
(* hundredths, the float lies a little above or below it, as the additions *)
(* that made it left it, and round() gives the one hundredth or the other. *)
(***************************************************************************)
MaxRecords == 3

\* the three modules that aggregate
Aggregators == {"improved", "dashboard", "grouped"}

\* "Waxaad $<amt> ka heshay Ali("
ReceivedFrom(amt) ==
    <<"Waxaad", " ", "$">> \o amt \o <<" ", "ka heshay", " ", "Ali", "(">>

\* the blocks of the records that are aggregated
AggBlocks ==
    { SentTo(<<"2", "0", ".", "0", "0">>),
      SentTo(<<"0", ".", "0", "0", "6">>),
      SentTo(<<"0", ".", "0", "0", "3">>),
      ReceivedFrom(<<"5", ".", "0", "0">>),
      ReceivedFrom(<<"0", ".", "0", "0", "2">>),
      \* "Waxaad $2.50 ka heshay  Bob ("
      <<"Waxaad", " ", "$", "2", ".", "5", "0", " ", "ka heshay", " ", " ",
        "Bob", " ", "(">>,
      AirtimeTo(<<"5", ".", "0", "0">>, MinPhoneLen),
      AirtimeTo(<<"0", ".", "0", "0", "4">>, MinPhoneLen),
      AirtimeFrom(<<"0", ".", "0", "0", "4">>, MinPhoneLen),
      \* "Kusoo dhawaaw Shop Tixraac: 77, $5 ayaad u dirtay"
      <<"Kusoo dhawaaw", " ", "Shop", " ", "Tixraac:", " ", "7", "7", ",",
        " ", "$", "5", " ", "ayaad u dirtay">> }

\* the record sequences a module aggregates: what its extract_transactions
\* gives for at most MaxRecords of these blocks, each of them a record
TxLists(m) ==
    LET c    == [b \in AggBlocks |-> Classify(m, b)]
        good == {b \in AggBlocks : c[b].kind = "tx"}
        bss  == UNION { [1 .. len -> good] : len \in 0 .. MaxRecords }
    IN  { [k \in 1 .. Len(bs) |-> Record(m, c[bs[k]], k, bs[k], NoDate)] :
          bs \in bss }

\* group_transactions(transactions), SAHALAnalyzer(transactions),
\* group_by_name(transactions)
CallGroup(m, txs) ==
    /\ pc = "idle"
    /\ impl' = m
    /\ transactions' = txs
    /\ data' = <<>>
    /\ folded' = 0
    /\ pc' = "group"
    /\ UNCHANGED <<session, raw, text, blocks, i, unmatched_blocks, dates, ret, df,
                   stats>>

\* the value the defaultdict makes for a name it has not seen
Unseen(m, name) ==
    CASE m = "improved"  ->
           [name |-> name, sent |-> 0, received |-> 0, sent_count |-> 0,
            received_count |-> 0, sent_airtime |-> 0, received_airtime |-> 0,
            sent_person |-> 0, received_person |-> 0,
            last_transaction |-> <<>>, transaction_history |-> <<>>]
      [] m = "dashboard" ->
           [name |-> name, sent |-> 0, received |-> 0, sent_count |-> 0,
            received_count |-> 0, sent_airtime |-> 0, received_airtime |-> 0,
            sent_person |-> 0, received_person |-> 0]
      [] m = "grouped"   ->
           [name |-> name, sent_total |-> 0, received_total |-> 0,
            sent_count |-> 0, received_count |-> 0]

\* the body of "if tx['type'] == 'sent':" in group_transactions and
\* _create_dataframe
AddSent(e, tx) ==
    LET e1 == [e EXCEPT !.sent = @ + tx.amount, !.sent_count = @ + 1]
    IN  IF tx.category = "airtime"
        THEN [e1 EXCEPT !.sent_airtime = @ + tx.amount]
        ELSE [e1 EXCEPT !.sent_person = @ + tx.amount]

\* the body of "elif tx['type'] == 'received':"
AddReceived(e, tx) ==
    LET e1 == [e EXCEPT !.received = @ + tx.amount, !.received_count = @ + 1]
    IN  IF tx.category = "airtime"
        THEN [e1 EXCEPT !.received_airtime = @ + tx.amount]
        ELSE [e1 EXCEPT !.received_person = @ + tx.amount]

\* the body of the loop of group_by_name
AddGrouped(e, tx) ==
    IF tx.type = "sent"
    THEN [e EXCEPT !.sent_total = @ + tx.amount, !.sent_count = @ + 1]
    ELSE IF tx.type = "received"
    THEN [e EXCEPT !.received_total = @ + tx.amount, !.received_count = @ + 1]
    ELSE e

\* the entry of a name after one more record of that name
Added(m, e, tx) ==
    LET e1 == IF tx.type = "sent" THEN AddSent(e, tx)
              ELSE IF tx.type = "received" THEN AddReceived(e, tx)
              ELSE e
    IN  CASE m = "improved"  ->
               [e1 EXCEPT !.last_transaction = <<tx>>,
                          !.transaction_history = Append(@, tx)]
          [] m = "dashboard" -> e1
          [] m = "grouped"   -> AddGrouped(e, tx)

\* where the dict has a name, 0 if it has not
KeyAt(d, name) ==
    IF \E k \in 1 .. Len(d) : d[k].name = name
    THEN CHOOSE k \in 1 .. Len(d) : d[k].name = name
    ELSE 0

\* the loop with a list in place of the dict: every record a new entry
FoldedAnew(m, d, tx) == Append(d, Added(m, Unseen(m, tx.name), tx))

\* the dict after one turn of the loop "for tx in transactions:"
Folded(m, d, tx) ==
    LET k == KeyAt(d, tx.name)
    IN  IF k = 0 THEN Append(d, Added(m, Unseen(m, tx.name), tx))
        ELSE [d EXCEPT ![k] = Added(m, d[k], tx)]

\* one turn of the loop over the records
Fold ==
    /\ pc = "group"
    /\ folded < Len(transactions)
    /\ data' = Folded(impl, data, transactions[folded + 1])
    /\ folded' = folded + 1
    /\ UNCHANGED <<session, impl, raw, text, pc, blocks, i, transactions,
                   unmatched_blocks, dates, ret, df, stats>>

\* round(x, ndigits) of a float x near the decimal x: the values it can give
round(x, ndigits) ==
    LET q  == Pow10(FracDigits - ndigits)
        lo == (x \div q) * q
        r  == x - lo
    IN  IF 2 * r < q THEN {lo}
        ELSE IF 2 * r > q THEN {lo + q}
        ELSE {lo, lo + q}

\* the rows the comprehension of pd.DataFrame([...]) can make of an entry
Rows(m, info) ==
    { IF m = "improved"
      THEN [Name |-> info.name, Sent |-> s, Received |-> r, Net |-> nt,
            SentCount |-> info.sent_count,
            ReceivedCount |-> info.received_count,
            TotalTransactions |-> info.sent_count + info.received_count,
            SentAirtime |-> sa, SentPerson |-> sp,
            ReceivedAirtime |-> ra, ReceivedPerson |-> rp,
            LastTransaction |-> IF info.last_transaction # <<>>
                                THEN info.last_transaction[1].raw_block
                                ELSE <<>>]
      ELSE [Name |-> info.name, Sent |-> s, Received |-> r, Net |-> nt,
            SentCount |-> info.sent_count,
            ReceivedCount |-> info.received_count,
            SentAirtime |-> sa, SentPerson |-> sp,
            ReceivedAirtime |-> ra, ReceivedPerson |-> rp] :
      s  \in round(info.sent, 2),
      r  \in round(info.received, 2),
      nt \in round(info.received - info.sent, 2),
      sa \in round(info.sent_airtime, 2),
      sp \in round(info.sent_person, 2),
      ra \in round(info.received_airtime, 2),
      rp \in round(info.received_person, 2) }

\* the tables pd.DataFrame([... for name, info in data.items()]) can be: one
\* row per entry, in the order of the entries
Tables(m, d) ==
    IF d = <<>> THEN {<<>>}
    ELSE { t \in [1 .. Len(d) -> UNION {Rows(m, d[k]) : k \in 1 .. Len(d)}] :
           \A k \in 1 .. Len(d) : t[k] \in Rows(m, d[k]) }

\* the end of group_transactions and of _create_dataframe: the table of the
\* entries (the empty table for no records)
BuildTable ==
    /\ pc = "group"
    /\ impl \in Full
    /\ folded = Len(transactions)
    /\ df' \in Tables(impl, data)
    /\ pc' = "table"
    /\ UNCHANGED <<session, impl, raw, text, blocks, i, transactions, unmatched_blocks,
                   dates, ret, data, folded, stats>>

\* the end of group_by_name: return grouped
GroupedReturn ==
    /\ pc = "group"
    /\ impl = "grouped"
    /\ folded = Len(transactions)
    /\ pc' = "done"
    /\ UNCHANGED <<session, impl, raw, text, blocks, i, transactions, unmatched_blocks,
                   dates, ret, agg>>

\* df[col].sum()
RECURSIVE ColumnSum(_, _)
ColumnSum(t, col) ==
    IF t = <<>> THEN 0
    ELSE ColumnSum(SubSeq(t, 1, Len(t) - 1), col) + t[Len(t)][col]

\* df[cols]
Columns(t, cols) == [k \in 1 .. Len(t) |-> [c \in cols |-> t[k][c]]]

\* df.nlargest(k, col): the k rows with the largest values of col, the
\* largest first, rows of one value in the order of the table
nlargest(t, k, col) ==
    LET before(a, b) == \/ t[a][col] > t[b][col]
                        \/ t[a][col] = t[b][col] /\ a < b
        rank(a)      == Cardinality({b \in 1 .. Len(t) : before(b, a)})
        size         == IF Len(t) < k THEN Len(t) ELSE k
    IN  [j \in 1 .. size |-> t[CHOOSE a \in 1 .. Len(t) : rank(a) = j - 1]]

\* a / b of two floats
Div(a, b) == [num |-> a, den |-> b]

\* SAHALAnalyzer.get_summary_stats, past "if self.df.empty"
get_summary_stats(t) ==
    LET total_sent         == ColumnSum(t, "Sent")
        total_received     == ColumnSum(t, "Received")
        total_net          == ColumnSum(t, "Net")
        total_transactions == ColumnSum(t, "TotalTransactions")
        owe                == SelectSeq(t, LAMBDA row : row.Net < 0)
        owed               == SelectSeq(t, LAMBDA row : row.Net > 0)
    IN  [total_sent         |-> total_sent,
         total_received     |-> total_received,
         total_net          |-> total_net,
         total_transactions |-> total_transactions,
         top_senders        |-> Columns(nlargest(t, 10, "Sent"),
                                        {"Name", "Sent", "SentCount"}),
         top_receivers      |-> Columns(nlargest(t, 10, "Received"),
                                        {"Name", "Received", "ReceivedCount"}),
         owe_money          |-> Columns(nlargest(owe, 10, "Net"),
                                        {"Name", "Net"}),
         owed_money         |-> Columns(nlargest(owed, 10, "Net"),
                                        {"Name", "Net"}),
         most_active        |-> Columns(nlargest(t, 10, "TotalTransactions"),
                                        {"Name", "TotalTransactions", "Net"}),
         unique_contacts    |-> Len(t),
         avg_transaction_amount |->
             IF total_transactions > 0
             THEN Div(total_sent + total_received, total_transactions)
             ELSE Div(0, 1)]

\* calculate_summary_stats, past "if df.empty"
calculate_summary_stats(t) ==
    LET owe  == SelectSeq(t, LAMBDA row : row.Net < 0)
        owed == SelectSeq(t, LAMBDA row : row.Net > 0)
    IN  [total_sent         |-> ColumnSum(t, "Sent"),
         total_received     |-> ColumnSum(t, "Received"),
         total_net          |-> ColumnSum(t, "Net"),
         total_transactions |-> ColumnSum(t, "SentCount")
                                + ColumnSum(t, "ReceivedCount"),
         top_senders        |-> Columns(nlargest(t, 5, "Sent"),
                                        {"Name", "Sent"}),
         top_receivers      |-> Columns(nlargest(t, 5, "Received"),
                                        {"Name", "Received"}),
         owe_money          |-> Columns(nlargest(owe, 5, "Net"),
                                        {"Name", "Net"}),
         owed_money         |-> Columns(nlargest(owed, 5, "Net"),
                                        {"Name", "Net"})]

\* the summary of a table: {} of the empty one
Summary(m, t) ==
    IF t = <<>> THEN <<>>
    ELSE IF m = "improved" THEN get_summary_stats(t)
    ELSE calculate_summary_stats(t)

\* stats = analyzer.get_summary_stats(), stats = calculate_summary_stats(df)
Summarize ==
    /\ pc = "table"
    /\ stats' = Summary(impl, df)
    /\ pc' = "summary"
    /\ UNCHANGED <<session, impl, raw, text, blocks, i, transactions, unmatched_blocks,
                   dates, ret, data, folded, df>>

\* the steps of the aggregations of the modules ms
NextAgg(ms) ==
    \/ pc = "idle" /\ \E m \in ms : \E txs \in TxLists(m) : CallGroup(m, txs)
    \/ Fold
    \/ BuildTable
    \/ GroupedReturn
    \/ Summarize
    \/ NextRun

\* the aggregations of the three modules that aggregate
SpecAgg == Init /\ [][NextAgg(Aggregators)]_vars

(***************************************************************************)
(* Runs one after the other in one process: what a run leaves behind stays *)
(* where it is until a later run assigns it                                *)
(***************************************************************************)
\* the texts of the runs
RunTexts ==
    { <<>>,
      <<SENTINEL, " ">> \o SentTo(<<"5">>),
      <<SENTINEL, " ">> \o SentTo(<<"5">>) \o <<SENTINEL>>
        \o AirtimeTo(<<"1">>, MinPhoneLen),
      <<SENTINEL, " ", "Waxaad", " ", "$", "2", ".", "5", "0", " ",
        "ka heshay", " ", "Bob", "(", "\n">>
        \o Tar(<<"1", "7">>, <<"1", "0">>, <<"1", "3">>)
        \o <<SENTINEL, " ", "Shop", "(", SENTINEL>>
        \o Tar(<<"1", "9">>, <<"1", "0">>, <<"0", "9">>),
      <<SENTINEL>> \o SentTo(<<"1", ".", "2", ".", "3">>),
      <<SENTINEL, " ", "Shop", "(">> }

\* main() has read the input of the next run of the same module
ReadNext(m, t) ==
    /\ impl \in {"none", m}
    /\ ReadInput(m, t)

\* df = group_transactions(transactions), SAHALAnalyzer(transactions, ...):
\* the caller aggregates the records the extractor returned, if there are any
GroupResult ==
    /\ pc = "done"
    /\ impl \in Full
    /\ ret[1] # <<>>
    /\ transactions' = ret[1]
    /\ data' = <<>>
    /\ folded' = 0
    /\ pc' = "group"
    /\ UNCHANGED <<session, impl, raw, text, blocks, i, unmatched_blocks, dates, ret,
                   df, stats>>

\* the run is over and the process goes on to the next
NextCall ==
    /\ \/ pc \in {"raised", "summary"}
       \/ pc = "done" /\ ret[1] = <<>>
    /\ pc' = "idle"
    /\ UNCHANGED <<session, impl, raw, text, locals>>

\* the steps of runs that follow one another
NextRuns ==
    \/ pc = "idle" /\ \E m \in Full : \E t \in RunTexts : ReadNext(m, t)
    \/ CleanInput
    \/ ExtractBegin
    \/ ClassifyBlock
    \/ ExtractReturn
    \/ Unpack
    \/ GroupResult
    \/ Fold
    \/ BuildTable
    \/ Summarize
    \/ NextCall

\* the runs of one process, SAHALTransactionParser's or the dashboard's
SpecRuns == Init /\ [][NextRuns]_vars

\* the runs of SAHALTransactionParser and of the dashboard on texts of names
SpecNames == Init /\ [][Next(Full, "names")]_vars

\* the runs of the three modules that have clean_input, on the texts of lines
SpecLines == Init /\ [][Next(Aggregators, "lines")]_vars

(***************************************************************************)
(* The dashboard's RAW Data form: the script runs from its top each time   *)
(* the user acts on the page, and st.session_state lasts from run to run   *)
(***************************************************************************)
\* the most texts a user submits
MaxSubmits == 2

\* what the user pastes: nothing, a blank, sections with and without
\* transactions, a banner alone, an amount that is no number
RawTexts ==
    { <<>>,
      <<" ">>,
      <<SENTINEL, " ">> \o SentTo(<<"5">>),
      <<SENTINEL, " ">> \o SentTo(<<"5">>) \o <<"\n", SENTINEL, " ">>
        \o AirtimeTo(<<"1">>, MinPhoneLen),
      <<SENTINEL, " ">> \o SentTo(<<"5">>)
        \o <<"\n", SENTINEL, " ", "Shop", "(">>,
      <<SENTINEL, " ", "Shop", "(">>,
      Banner("October", <<"1", "7">>, <<"U00AC", "U2211">>, <<"1">>,
             <<"0", "5">>, "PM"),
      <<SENTINEL, " ">> \o SentTo(<<"1", ".", "2", ".", "3">>) }

\* the user fills the text area and presses "Process Data": the script runs
\* with the text and the button set
PressProcess(t) ==
    /\ pc = "idle"
    /\ raw_data_key_counter < MaxSubmits
    /\ impl' = "dashboard"
    /\ pasted_csv' = t
    /\ submit_button' = TRUE
    /\ pc' = "form"
    /\ UNCHANGED <<raw, text, locals, pending_raw_data, raw_data_key_counter>>

\* the user acts on another widget of the page: the script runs with the
\* text area as it was and the button not set
Rerender ==
    /\ pc = "idle"
    /\ impl' = "dashboard"
    /\ submit_button' = FALSE
    /\ pc' = "form"
    /\ UNCHANGED <<raw, text, locals, pending_raw_data, raw_data_key_counter,
                   pasted_csv>>

\* if 'pending_raw_data' in st.session_state and ...pending_raw_data: the
\* pending text is taken, cleared and cleaned for extract_transactions
ProcessPending ==
    /\ pc = "form"
    /\ pending_raw_data # <<>>
    /\ raw' = pending_raw_data
    /\ pending_raw_data' = <<>>
    /\ text' = clean_input("dashboard", pending_raw_data)
    /\ pc' = "call"
    /\ UNCHANGED <<impl, locals, raw_data_key_counter, pasted_csv,
                   submit_button>>

\* elif submit_button and pasted_csv and pasted_csv.strip(): the text is
\* stored, the key of the text area changes and st.rerun() starts the script
\* anew, with the text area of the new key, which is empty
StorePending ==
    /\ pc = "form"
    /\ pending_raw_data = <<>>
    /\ submit_button
    /\ Strip(pasted_csv) # <<>>
    /\ pending_raw_data' = pasted_csv
    /\ raw_data_key_counter' = raw_data_key_counter + 1
    /\ pasted_csv' = <<>>
    /\ submit_button' = FALSE
    /\ pc' = "form"
    /\ UNCHANGED <<impl, raw, text, locals>>

\* if uploaded or (pasted_csv and pasted_csv.strip()): ... else: st.info(
\* "Please upload ...") for the RAW Data option, where uploaded is None: the
\* summary of the table made in this run, or the prompt
Render ==
    /\ \/ pc = "table"
       \/ /\ pc = "form"
          /\ pending_raw_data = <<>>
          /\ ~(submit_button /\ Strip(pasted_csv) # <<>>)
    /\ IF Strip(pasted_csv) # <<>>
       THEN IF pc # "table" \/ df = <<>>
            THEN pc' = "idle" /\ UNCHANGED stats
            ELSE stats' = calculate_summary_stats(df) /\ pc' = "summary"
       ELSE pc' = "prompt" /\ UNCHANGED stats
    /\ UNCHANGED <<session, impl, raw, text, blocks, i, transactions,
                   unmatched_blocks, dates, ret, data, folded, df>>

\* the run of the script ends: with the page it has made, with "No
\* transactions found" and return, or with an exception
ScriptEnds ==
    /\ \/ pc \in {"prompt", "summary", "raised"}
       \/ pc = "done" /\ ret[1] = <<>>
    /\ pc' = "idle"
    /\ UNCHANGED <<session, impl, raw, text, locals>>

\* the steps of a run of the script
Script ==
    \/ ProcessPending
    \/ StorePending
    \/ ExtractBegin
    \/ ClassifyBlock
    \/ ExtractReturn
    \/ Unpack
    \/ GroupResult
    \/ Fold
    \/ BuildTable
    \/ Render
    \/ ScriptEnds

\* the steps of the page with the RAW Data option chosen
NextRaw ==
    \/ \E t \in RawTexts : PressProcess(t)
    \/ Rerender
    \/ Script

\* a run of the script that has begun goes on to its end: weak fairness of
\* each of its steps, for the two steps that read the text with ENABLED
\* written as the condition of the step
ScriptRuns ==
    /\ WF_vars(StorePending)
    /\ WF_vars(ExtractBegin)
    /\ WF_vars(ExtractReturn)
    /\ WF_vars(Unpack)
    /\ WF_vars(GroupResult)
    /\ WF_vars(Fold)
    /\ WF_vars(BuildTable)
    /\ WF_vars(Render)
    /\ WF_vars(ScriptEnds)
    /\ \/ []<>~(pc = "form" /\ pending_raw_data # <<>>)
       \/ []<><<ProcessPending>>_vars
    /\ \/ []<>~(pc = "loop" /\ i < Len(blocks))
       \/ []<><<ClassifyBlock>>_vars

\* the page with the RAW Data option chosen
SpecRaw == Init /\ [][NextRaw]_vars /\ ScriptRuns

(***************************************************************************)
(* What the claims speak of                                                *)
(***************************************************************************)
Last(s) == s[Len(s)]

\* extract_transactions has ended by raising
Aborted == pc = "raised" /\ ret = <<>>

\* extract_transactions has ended, one way or the other
Ended == pc = "returned" \/ Aborted

\* the loop is about to handle the block blocks[i + 1]
Handling(ms) == pc = "loop" /\ i < Len(blocks) /\ impl \in ms

\* the loop has just handled the block blocks[i]
Handled(ms) == pc = "loop" /\ i > 0 /\ impl \in ms

\* the step adds one record to the records and nothing to the unmatched list
AddsRecord ==
    /\ pc' = "loop"
    /\ Len(transactions') = Len(transactions) + 1
    /\ SubSeq(transactions', 1, Len(transactions)) = transactions
    /\ unmatched_blocks' = unmatched_blocks

\* the step adds the block b to the unmatched list and no record
AddsUnmatched(b) ==
    /\ pc' = "loop"
    /\ transactions' = transactions
    /\ unmatched_blocks' = Append(unmatched_blocks, b)

\* the four canonical rules, in table order
Canonical == transaction_patterns

\* the rule k matches the block b somewhere
Matches(k, b) == Search(Canonical[k].pat, b).ok

\* the amount string is a decimal greater than 0
GoodAmount(str) == ParseFloat(str).ok /\ ParseFloat(str).val > 0

\* the string is digits only, at least MinPhoneLen of them
GoodPhone(str) ==
    Len(str) >= MinPhoneLen /\ \A j \in 1 .. Len(str) : str[j] \in Digits

\* the rule k matches the block b with a valid amount and counterparty
Satisfies(k, b) ==
    LET m == Search(Canonical[k].pat, b)
    IN  /\ m.ok
        /\ GoodAmount(m.g[1])
        /\ Canonical[k].category = "airtime" => GoodPhone(Strip(m.g[2]))

Satisfied(b) == {k \in 1 .. Len(Canonical) : Satisfies(k, b)}

\* b is a subsequence of blocks made of the blocks at increasing places that
\* are not taken by the other output: recs and unm interleave to bs
RECURSIVE Interleave(_, _, _)
Interleave(bs, recs, unm) ==
    IF bs = <<>> THEN recs = <<>> /\ unm = <<>>
    ELSE \/ /\ recs # <<>>
            /\ Head(recs) = Head(bs)
            /\ Interleave(Tail(bs), Tail(recs), unm)
         \/ /\ unm # <<>>
            /\ Head(unm) = Head(bs)
            /\ Interleave(Tail(bs), recs, Tail(unm))

RawBlocks(recs) == [k \in 1 .. Len(recs) |-> recs[k].raw_block]

(***************************************************************************)
(* C1                                                                      *)
(***************************************************************************)
\* the records and the unmatched list hold every block of the text once, each
\* in one of the two, both in document order
Partitioned(recs, unm) ==
    /\ Len(recs) + Len(unm) = Len(SplitBlocks(text))
    /\ Interleave(SplitBlocks(text), RawBlocks(recs), unm)
    /\ impl = "improved" =>
         /\ \A k \in 1 .. Len(recs) :
              recs[k].raw_block = SplitBlocks(text)[recs[k].block_index]
         /\ \A k \in 1 .. Len(recs) - 1 :
              recs[k].block_index < recs[k + 1].block_index

\* C1: for every input text, when extract_transactions (SAHALTransactionParser
\* or the dashboard's) has ended, it has returned records and unmatched blocks
\* that hold every block of the text in exactly one of the two: the lengths
\* add up to the number of blocks, no block is lost or in both, and both
\* lists are in document order.
C1_EveryBlockInOneOutput ==
    (impl \in Full /\ Ended) =>
        /\ pc = "returned"
        /\ Partitioned(ret[1], ret[2])

\* C1, as far as it holds: whenever extract_transactions returns, and at
\* every turn of its loop for the blocks handled so far, the blocks are
\* partitioned as C1 says.
C1_PartitionedOnReturn ==
    /\ (impl \in Full /\ pc = "returned") => Partitioned(ret[1], ret[2])
    /\ (impl \in Full /\ pc = "loop") =>
         /\ Len(transactions) + Len(unmatched_blocks) = i
         /\ Interleave(SubSeq(blocks, 1, i), RawBlocks(transactions),
                       unmatched_blocks)

\* C1 for SAHALTransactionParser alone, which never raises
C1_ImprovedPartitions ==
    (impl = "improved" /\ Ended) =>
        pc = "returned" /\ Partitioned(ret[1], ret[2])

(***************************************************************************)
(* C2                                                                      *)
(***************************************************************************)
\* the step adds one record, of the type and category of the rule k
AddsRecordOfRule(k) ==
    /\ AddsRecord
    /\ Last(transactions').type = Canonical[k].type
    /\ Last(transactions').category = Canonical[k].category

\* C2: when the block the loop handles satisfies more than one of the four
\* rules (each with a valid amount and counterparty), the step adds exactly
\* one record, whose type and category are those of the first of these rules
\* in table order, whatever their places in the text.
C2_FirstRuleInTableOrderWins ==
    [][ (Handling(Full) /\ Cardinality(Satisfied(blocks[i + 1])) > 1)
          => AddsRecordOfRule(SetMin(Satisfied(blocks[i + 1]))) ]_vars

\* C2 for SAHALTransactionParser alone
C2_ImprovedFirstRuleWins ==
    [][ (Handling({"improved"}) /\ Cardinality(Satisfied(blocks[i + 1])) > 1)
          => AddsRecordOfRule(SetMin(Satisfied(blocks[i + 1]))) ]_vars

\* C2 for the dashboard's blocks in which every rule that matches has a valid
\* amount: there the first rule that matches wins
C2_DashboardFirstRuleWins ==
    [][ ( /\ Handling({"dashboard"})
          /\ Cardinality(Satisfied(blocks[i + 1])) > 1
          /\ \A k \in 1 .. Len(Canonical) :
               Matches(k, blocks[i + 1]) => Satisfies(k, blocks[i + 1]) )
          => AddsRecordOfRule(SetMin(Satisfied(blocks[i + 1]))) ]_vars

(***************************************************************************)
(* C3                                                                      *)
(***************************************************************************)
\* the rule k matches the block b with an amount that float() rejects or that
\* is not greater than 0
BadAmount(k, b) ==
    LET m == Search(Canonical[k].pat, b)
    IN  m.ok /\ ~GoodAmount(m.g[1])

\* the rule k is the first rule that matches b with a bad amount, and no rule
\* before it takes the block
FirstBad(k, b) ==
    /\ BadAmount(k, b)
    /\ \A j \in 1 .. k - 1 : ~Matches(j, b)

\* the rules after k that b satisfies
Later(k, b) == {j \in Satisfied(b) : j > k}

\* C3: in SAHALTransactionParser.extract_transactions, when a rule matches the
\* block with an amount that fails numeric parsing or is not greater than 0,
\* the rule counts as not matching: the first later rule that matches with a
\* valid amount produces the record, and if there is none the block is
\* appended to the unmatched list.
C3_InvalidAmountFallsThrough ==
    [][ \A k \in 1 .. Len(Canonical) :
          (Handling({"improved"}) /\ FirstBad(k, blocks[i + 1])) =>
             LET b == blocks[i + 1]
             IN  IF Later(k, b) # {}
                 THEN /\ AddsRecordOfRule(SetMin(Later(k, b)))
                      /\ Last(transactions').amount =
                           ParseFloat(Search(Canonical[SetMin(Later(k, b))].pat,
                                             b).g[1]).val
                      /\ Last(transactions').raw_block = b
                 ELSE AddsUnmatched(b) ]_vars

\* C3 witness: the parser has handled a block in which the first rule matched
\* with the amount 0 and a later rule gave the record
C3_Witness ==
    /\ Handled({"improved"})
    /\ FirstBad(1, blocks[i])
    /\ Later(1, blocks[i]) # {}
    /\ transactions # <<>>
    /\ Last(transactions).block_index = i
    /\ Last(transactions).type = "received"

(***************************************************************************)
(* C4, C5, C6                                                              *)
(***************************************************************************)
\* C4: every record the dashboard pipeline's extract_transactions (and
\* sahal_grouped's) produces has an amount greater than 0; a block whose
\* matched amount is zero gives no record.
C4_DashboardAmountsPositive ==
    impl \in {"dashboard", "grouped"} =>
        \A k \in 1 .. Len(transactions) : transactions[k].amount > 0

\* C4 for SAHALTransactionParser, which validates the amount
C4_ImprovedAmountsPositive ==
    impl = "improved" =>
        \A k \in 1 .. Len(transactions) : transactions[k].amount > 0

\* C5: the extractor of the dashboard, of sahal_grouped and of
\* transaction_parser never aborts the batch: no block makes it raise, every
\* call returns.
C5_ExtractorNeverAborts ==
    impl \in {"dashboard", "grouped", "parser"} => ~Aborted

\* C5 for SAHALTransactionParser: no call of its extractor raises
C5_ImprovedNeverAborts ==
    impl = "improved" => ~Aborted

\* C6: for the empty text extract_transactions returns three components,
\* empty records, empty unmatched list and empty date span, and the caller
\* that unpacks the three goes on without raising.
C6_EmptyInputThreeComponents ==
    (impl \in Full /\ text = <<>>) =>
        /\ pc = "returned" => ret = << <<>>, <<>>, EmptyRange >>
        /\ pc # "raised"

\* C6 for SAHALTransactionParser
C6_ImprovedEmptyInput ==
    (impl = "improved" /\ text = <<>>) =>
        /\ pc = "returned" => ret = << <<>>, <<>>, EmptyRange >>
        /\ pc # "raised"

(***************************************************************************)
(* C7                                                                      *)
(***************************************************************************)
\* the places of the sentinels in t, with the places before and after t
Cuts(t) == {0, Len(t) + 1} \cup {j \in 1 .. Len(t) : t[j] = SENTINEL}

\* the first cut of t after the place c
NextCut(t, c) == SetMin({d \in Cuts(t) : d > c})

\* the places of t that are between the cut c and the next one and hold no
\* white space
Inked(t, c) ==
    IF c > Len(t) THEN {}
    ELSE {j \in c + 1 .. NextCut(t, c) - 1 : t[j] \notin Spaces}

\* the cuts of t that a block follows, a piece that is not all white space
BlockCuts(t) == {c \in Cuts(t) : Inked(t, c) # {}}

\* the n-th element of a set of numbers, in increasing order
RECURSIVE Nth(_, _)
Nth(S, n) == IF n = 1 THEN SetMin(S) ELSE Nth(S \ {SetMin(S)}, n - 1)

\* C7: the blocks are the pieces of the text between the sentinels, trimmed,
\* without the pieces that are empty after trimming, in document order: no
\* block is empty or begins or ends with white space or holds a sentinel,
\* and there are at most (number of sentinels + 1) of them.  (Stated where the
\* split has just been done; the loop leaves the blocks as they are.)
C7_BlocksAreTrimmedPieces ==
    (impl \in Full /\ pc = "loop" /\ i = 0) =>
        /\ Len(blocks) = Cardinality(BlockCuts(text))
        /\ Len(blocks) <= Cardinality(Cuts(text)) - 1
        /\ \A k \in 1 .. Len(blocks) :
             LET ink == Inked(text, Nth(BlockCuts(text), k))
             IN  /\ blocks[k] = SubSeq(text, SetMin(ink), SetMax(ink))
                 /\ blocks[k] # <<>>
                 /\ blocks[k][1] \notin Spaces
                 /\ Last(blocks[k]) \notin Spaces
                 /\ \A j \in 1 .. Len(blocks[k]) : blocks[k][j] # SENTINEL

\* C7 witness: a text that begins with white space, with a line break after
\* its sentinel, has given two blocks, in document order, both trimmed
C7_Witness ==
    /\ impl \in Full
    /\ pc = "loop"
    /\ text[1] \in Spaces
    /\ Len(blocks) = 2
    /\ blocks[1] = <<"Shop", "(">>
    /\ Len(blocks[2]) > 1
    /\ blocks[2][1] = "Tar:"

\* C7 witness: two sentinels with white space between them and a sentinel at
\* the end of the text give no block
C7_WitnessNoBlock ==
    /\ impl \in Full
    /\ pc = "loop"
    /\ Len(text) = MaxChunks
    /\ text[1] = SENTINEL
    /\ text[2] \in Spaces
    /\ text[Len(text)] = SENTINEL
    /\ blocks = <<>>

(***************************************************************************)
(* C8                                                                      *)
(***************************************************************************)
\* a name: name words and blanks, one name word at least
IsName(n) ==
    /\ \A j \in 1 .. Len(n) : n[j] \in Names \cup {" "}
    /\ \E j \in 1 .. Len(n) : n[j] \in Names

\* "$A ayaad u dirtay N(": the form, A and N of a block b of that form
SentForm(b) ==
    LET a == RunLen(b, 2, AmtChars)
    IN  [ok |-> /\ Len(b) >= a + 6
                /\ b[1] = "$"
                /\ a >= 1
                /\ SubSeq(b, a + 2, a + 4) = <<" ", "ayaad u dirtay", " ">>
                /\ Last(b) = "("
                /\ IsName(SubSeq(b, a + 5, Len(b) - 1))
                /\ GoodAmount(SubSeq(b, 2, a + 1)),
         A  |-> SubSeq(b, 2, a + 1),
         N  |-> SubSeq(b, a + 5, Len(b) - 1)]

\* "Waxaad $A ka heshay N("
ReceivedForm(b) ==
    LET a == RunLen(b, 4, AmtChars)
    IN  [ok |-> /\ Len(b) >= a + 8
                /\ SubSeq(b, 1, 3) = <<"Waxaad", " ", "$">>
                /\ a >= 1
                /\ SubSeq(b, a + 4, a + 6) = <<" ", "ka heshay", " ">>
                /\ Last(b) = "("
                /\ IsName(SubSeq(b, a + 7, Len(b) - 1))
                /\ GoodAmount(SubSeq(b, 4, a + 3)),
         A  |-> SubSeq(b, 4, a + 3),
         N  |-> SubSeq(b, a + 7, Len(b) - 1)]

\* the step adds one record with these fields
AddsTheRecord(type, category, name, amount) ==
    /\ AddsRecord
    /\ Last(transactions').type = type
    /\ Last(transactions').category = category
    /\ Last(transactions').name = name
    /\ Last(transactions').amount = amount

\* C8: a block "$A ayaad u dirtay N(" with A a valid positive decimal and N a
\* name yields exactly one record, sent, person, N without the white space
\* around it, A; a block "Waxaad $A ka heshay N(" yields exactly one record,
\* received, person, N, A.
C8_PersonFormsGiveTheirRecord ==
    [][ Handling(Full) =>
          LET b == blocks[i + 1]
          IN  /\ SentForm(b).ok =>
                   AddsTheRecord("sent", "person", Strip(SentForm(b).N),
                                 ParseFloat(SentForm(b).A).val)
              /\ ReceivedForm(b).ok =>
                   AddsTheRecord("received", "person",
                                 Strip(ReceivedForm(b).N),
                                 ParseFloat(ReceivedForm(b).A).val) ]_vars

\* C8 witness: a block "Waxaad $A ka heshay N(" with blanks around N has given
\* its record, the name trimmed
C8_Witness ==
    /\ Handled(Full)
    /\ ReceivedForm(blocks[i]).ok
    /\ ReceivedForm(blocks[i]).N # Strip(ReceivedForm(blocks[i]).N)
    /\ transactions # <<>>
    /\ Last(transactions).raw_block = blocks[i]
    /\ Last(transactions).name = <<"Bob">>
    /\ Last(transactions).type = "received"

\* C8 witness: a block "$A ayaad u dirtay N(" has given its record
C8_WitnessSent ==
    /\ Handled(Full)
    /\ SentForm(blocks[i]).ok
    /\ transactions # <<>>
    /\ Last(transactions).raw_block = blocks[i]
    /\ Last(transactions).name = <<"Ali">>
    /\ Last(transactions).type = "sent"

(***************************************************************************)
(* C9                                                                      *)
(***************************************************************************)
RulePhrases == {"ayaad u dirtay", "ugu shubtay", "ka heshay",
                "You have received airtime of", "Kusoo dhawaaw"}

\* the places of the phrases of the rules in b
PhrasePlaces(b) == {j \in 1 .. Len(b) : b[j] \in RulePhrases}

\* the only phrase of a rule in b is an airtime phrase, and fewer than
\* MinPhoneLen digits follow it (for received airtime: follow its "from")
ShortAirtime(b) ==
    /\ Cardinality(PhrasePlaces(b)) = 1
    /\ LET j == SetMin(PhrasePlaces(b))
       IN  \/ /\ b[j] = "ugu shubtay"
              /\ RunLen(b, j + 2, Digits) < MinPhoneLen
           \/ /\ b[j] = "You have received airtime of"
              /\ \A f \in j + 1 .. Len(b) :
                   b[f] = "from" => RunLen(b, f + 2, Digits) < MinPhoneLen

\* every airtime record has a counterparty of digits only, MinPhoneLen or more
AirtimeHasPhone ==
    impl \in Full =>
        \A k \in 1 .. Len(transactions) :
            transactions[k].category = "airtime"
                => GoodPhone(transactions[k].name)

\* C9: every record of category airtime has a counterparty that is digits
\* only, at least 9 of them; a block whose only transaction phrase is an
\* airtime phrase followed by fewer than 9 digits gives no record and goes to
\* the unmatched list.
C9_AirtimeCounterpartyIsPhone ==
    /\ []AirtimeHasPhone
    /\ [][ (Handling(Full) /\ ShortAirtime(blocks[i + 1]))
             => AddsUnmatched(blocks[i + 1]) ]_vars

\* C9 witness: an airtime record is there, and a block with an airtime phrase
\* and too few digits has just gone to the unmatched list
C9_Witness ==
    /\ Handled(Full)
    /\ ShortAirtime(blocks[i])
    /\ unmatched_blocks # <<>>
    /\ Last(unmatched_blocks) = blocks[i]
    /\ Len(transactions) = 1
    /\ transactions[1].category = "airtime"
    /\ Len(unmatched_blocks) = 1

(***************************************************************************)
(* C10                                                                     *)
(***************************************************************************)
\* "Kusoo dhawaaw <name> [phone] Tixraac: <reference>, $<amount> ayaad u
\* dirtay", without and with the phone
BusinessForm ==
    << Lit("Kusoo dhawaaw"), Lit(" "), Grp(1, Plus(Names)), Lit(" "),
       Lit("Tixraac:"), Lit(" "), Plus(Digits), Lit(","), Lit(" "), Lit("$"),
       Grp(2, Plus(AmtChars)), Lit(" "), Lit("ayaad u dirtay") >>

BusinessFormPhone ==
    << Lit("Kusoo dhawaaw"), Lit(" "), Grp(1, Plus(Names)), Lit(" "),
       Plus(Digits), Lit(" "),
       Lit("Tixraac:"), Lit(" "), Plus(Digits), Lit(","), Lit(" "), Lit("$"),
       Grp(2, Plus(AmtChars)), Lit(" "), Lit("ayaad u dirtay") >>

\* the block b begins with the business format, its amount a valid one
InBusinessForm(b) ==
    LET m == IF MatchFrom(BusinessForm, b, 1, 1).ok
             THEN MatchFrom(BusinessForm, b, 1, 1)
             ELSE MatchFrom(BusinessFormPhone, b, 1, 1)
    IN  [ok |-> m.ok /\ GoodAmount(m.g[2]), name |-> m.g[1]]

\* C10: the dashboard's extract_transactions classifies every block in the
\* business format as one record sent, business, with the business name as
\* counterparty, whatever follows "ayaad u dirtay".
C10_BusinessFormatIsBusiness ==
    [][ (Handling({"dashboard"}) /\ InBusinessForm(blocks[i + 1]).ok)
          => /\ AddsRecord
             /\ Last(transactions').type = "sent"
             /\ Last(transactions').category = "business"
             /\ Last(transactions').name = InBusinessForm(blocks[i + 1]).name
      ]_vars

\* C10, as far as it holds: a block in the business format in which none of
\* the four rules before the business rules matches gives the business record
C10_BusinessWhenNoRuleBefore ==
    [][ ( /\ Handling({"dashboard"})
          /\ InBusinessForm(blocks[i + 1]).ok
          /\ \A k \in 1 .. Len(Canonical) : ~Matches(k, blocks[i + 1]) )
          => /\ AddsRecord
             /\ Last(transactions').type = "sent"
             /\ Last(transactions').category = "business"
      ]_vars

(***************************************************************************)
(* C11                                                                     *)
(***************************************************************************)
\* the text is what clean_input has made of the raw text
Cleaned == impl \in Full /\ pc = "call" /\ text = clean_input(impl, raw)

\* C11: clean_input is idempotent: for every raw text, clean_input of the
\* cleaned text is the cleaned text, and no banner matches in the cleaned
\* text (the pieces before and after a removed banner form no new banner).
C11_CleanInputIdempotent ==
    Cleaned =>
        /\ clean_input(impl, text) = text
        /\ ~Search(CleanPat(impl), text).ok

\* C11 for the texts in which no banner stands within the pieces of another:
\* every banner of the raw text begins at a weekday that the raw text has at
\* that place followed by ", ", and cleaning twice changes nothing more
C11_IdempotentWithoutNesting ==
    (Cleaned /\ raw \notin Nested(impl)) =>
        /\ clean_input(impl, text) = text
        /\ ~Search(CleanPat(impl), text).ok


(***************************************************************************)
(* C12                                                                     *)
(***************************************************************************)
\* the banner pattern with the separator of the banners the service writes,
\* U+00B7, as sahal_grouped.py and transaction_parser.py have it
BannerFormat == DatePat1("grouped")

\* the datetime a banner matched by pat in the block b stands for, NoDate if
\* there is none or its calendar values are invalid
BannerDate(pat, b) ==
    LET m == Search(pat, b)
    IN  IF ~m.ok THEN NoDate
        ELSE datetime(IntOf(m.g[4]), month_map(m.g[2][1]), IntOf(m.g[3]),
                      Hour24(IntOf(m.g[5]), m.g[7][1]), IntOf(m.g[6]), 0)

\* the datetime the first Tar: stamp of the block b stands for, NoDate if
\* there is none or its calendar values are invalid
TarDate(b) ==
    LET m == Search(DatePat2, b)
    IN  IF ~m.ok THEN NoDate
        ELSE datetime(2000 + IntOf(m.g[3]), IntOf(m.g[2]), IntOf(m.g[1]),
                      IntOf(m.g[4]), IntOf(m.g[5]), IntOf(m.g[6]))

\* the step of the loop finds the date d in its block, or none if d is NoDate,
\* and does not raise
FindsDate(d) ==
    /\ pc' = "loop"
    /\ dates' = IF d.some THEN Append(dates, d) ELSE dates
    /\ transactions' # transactions => Last(transactions').date = d

\* the datetime of the banner of the block b, written with the separator of
\* the service or with that of the module's pattern
WrittenBannerDate(b) ==
    LET d == BannerDate(BannerFormat, b)
    IN  IF d.some THEN d ELSE BannerDate(DatePat1(impl), b)

\* the module's banner format before the Tar: format
OwnBannerDate(b) == BannerDate(DatePat1(impl), b)

\* the first of the two dates that is one
FirstDate(d1, d2) == IF d1.some THEN d1 ELSE d2

\* C12: parse_date_from_text tries the banner format before the Tar: format:
\* for a block with a banner (as the service writes it, or with the separator
\* of the module's pattern) of valid calendar values the banner's datetime is
\* found, whether or not a Tar: stamp stands before or after it; with a
\* banner of invalid calendar values, or none, the datetime of the Tar: stamp
\* is found if it is valid; otherwise no date is found; nothing is raised.
C12_BannerBeforeTar ==
    [][ Handling(Full) =>
          FindsDate(FirstDate(WrittenBannerDate(blocks[i + 1]),
                              TarDate(blocks[i + 1]))) ]_vars

\* C12 for the banners that have the separator of the module's own pattern
C12_OwnBannerBeforeTar ==
    [][ Handling(Full) =>
          FindsDate(FirstDate(OwnBannerDate(blocks[i + 1]),
                              TarDate(blocks[i + 1]))) ]_vars


(***************************************************************************)
(* C13                                                                     *)
(***************************************************************************)
\* the hour of the 24-hour clock that the hour h of the 12-hour clock stands
\* for, h in 1 .. 12
ClockHour(h, ampm) ==
    IF h = 12 THEN (IF ampm = "AM" THEN 0 ELSE 12)
    ELSE IF ampm = "PM" THEN h + 12 ELSE h

\* the block b has a banner matched by the module's pattern, of valid
\* calendar day and minute, and no Tar: stamp
OwnBannerAlone(b) ==
    LET m == Search(DatePat1(impl), b)
    IN  /\ m.ok
        /\ datetime(IntOf(m.g[4]), month_map(m.g[2][1]), IntOf(m.g[3]), 0,
                    IntOf(m.g[6]), 0).some
        /\ ~Search(DatePat2, b).ok

\* the hour and the half of the day written in the banner of b
WrittenHour(b) == IntOf(Search(DatePat1(impl), b).g[5])

WrittenHalf(b) == Search(DatePat1(impl), b).g[7][1]

\* the step of the loop turns the written hour into the hour of the 24-hour
\* clock, and finds no date when the written hour is not in 1 .. 12
ConvertsHour(b) ==
    IF WrittenHour(b) \in 1 .. 12
    THEN /\ Len(dates') = Len(dates) + 1
         /\ Last(dates').h = ClockHour(WrittenHour(b), WrittenHalf(b))
         /\ Last(dates').mi = IntOf(Search(DatePat1(impl), b).g[6])
    ELSE dates' = dates

\* C13: for a banner, 12 AM gives hour 0, 12 PM hour 12, h PM h + 12 and
\* h AM h for h in 1 .. 11; every datetime found has its hour in 0 .. 23; a
\* banner whose written hour is not in 1 .. 12 gives no date.
C13_TwelveHourClock ==
    /\ [](\A k \in 1 .. Len(dates) : dates[k].h \in 0 .. 23)
    /\ [][ (Handling(Full) /\ OwnBannerAlone(blocks[i + 1]))
             => ConvertsHour(blocks[i + 1]) ]_vars

\* C13 for the written hours 1 .. 13: what C13 says but for the hour 0
C13_ClockFromOne ==
    /\ [](\A k \in 1 .. Len(dates) : dates[k].h \in 0 .. 23)
    /\ [][ ( /\ Handling(Full)
             /\ OwnBannerAlone(blocks[i + 1])
             /\ WrittenHour(blocks[i + 1]) # 0 )
             => ConvertsHour(blocks[i + 1]) ]_vars


(***************************************************************************)
(* C14                                                                     *)
(***************************************************************************)
\* the seconds from the start of 2000-01-01 to the datetime dt
Seconds(dt) ==
    (ToOrdinal(dt) - ToOrdinal(datetime(2000, 1, 1, 0, 0, 0))) * 86400
    + SecondOfDay(dt)

\* the blocks of the text, by their places, in which a date is found
Dated == {k \in 1 .. Len(blocks) : parse_date_from_text(impl, blocks[k]).some}

DateOfBlock(k) == parse_date_from_text(impl, blocks[k])

\* extract_transactions has returned after its loop
Looped == impl \in Full /\ pc = "returned" /\ Len(ret) = 3 /\ text # <<>>

\* C14: when extract_transactions returns, its date span is empty if and only
\* if no block has a date; otherwise earliest_date <= latest_date, they are
\* the least and the greatest of the dates of the blocks, unmatched blocks
\* included, date_span_days >= 0 is the number of whole days between them
\* and total_dates_found >= 1 is the number of blocks with a date.  Every
\* block, with a date or without, is among the records or the unmatched.
C14_DateSpan ==
    Looped =>
        LET r == ret[3]
        IN  /\ r.found <=> Dated # {}
            /\ Len(ret[1]) + Len(ret[2]) = Len(blocks)
            /\ r.found =>
                 /\ Seconds(r.earliest_date) <= Seconds(r.latest_date)
                 /\ \E k \in Dated : DateOfBlock(k) = r.earliest_date
                 /\ \E k \in Dated : DateOfBlock(k) = r.latest_date
                 /\ \A k \in Dated :
                      /\ Seconds(r.earliest_date) <= Seconds(DateOfBlock(k))
                      /\ Seconds(DateOfBlock(k)) <= Seconds(r.latest_date)
                 /\ r.date_span_days >= 0
                 /\ r.date_span_days =
                      (Seconds(r.latest_date) - Seconds(r.earliest_date))
                        \div 86400
                 /\ r.total_dates_found >= 1
                 /\ r.total_dates_found = Cardinality(Dated)

\* C14 witness: three blocks, an unmatched one with the latest date, a record
\* with the earliest date and a record without a date; the dates are two
\* calendar days but less than two whole days apart
C14_Witness ==
    /\ Looped
    /\ Len(blocks) = 3
    /\ Dated = {1, 2}
    /\ Len(ret[1]) = 2
    /\ Len(ret[2]) = 1
    /\ ret[2][1] = blocks[1]
    /\ ret[3].found
    /\ ret[3].earliest_date = DateOfBlock(2)
    /\ ret[3].latest_date = DateOfBlock(1)
    /\ ret[3].date_span_days = 1
    /\ ToOrdinal(ret[3].latest_date) - ToOrdinal(ret[3].earliest_date) = 2
    /\ ret[3].total_dates_found = 2

(***************************************************************************)
(* C15                                                                     *)
(***************************************************************************)
\* the amount the text s stands for
Dec(s) == ParseFloat(s).val

\* the records of a type that name a counterparty
Naming(txs, name, type) ==
    {k \in 1 .. Len(txs) : txs[k].name = name /\ txs[k].type = type}

\* the sum of the amounts of the records at the places ks
RECURSIVE AmountSum(_, _)
AmountSum(txs, ks) ==
    IF ks = {} THEN 0
    ELSE LET k == CHOOSE j \in ks : TRUE
         IN  txs[k].amount + AmountSum(txs, ks \ {k})

\* the counterparties of records
NamesOf(txs) == {txs[k].name : k \in 1 .. Len(txs)}

\* the entries count, all together, this many records
RECURSIVE Counted(_)
Counted(d) ==
    IF d = <<>> THEN 0
    ELSE Counted(Tail(d)) + Head(d).sent_count + Head(d).received_count

\* the records the loop has folded
Seen == SubSeq(transactions, 1, folded)

\* the aggregation of SAHALAnalyzer or of the dashboard is at work or over
Aggregating == impl \in Full /\ pc \in {"group", "table", "summary"}

\* C15: at every point of the fold of group_transactions and of
\* _create_dataframe the aggregate holds each folded record once, under the
\* name of its counterparty: one entry for every name a folded record has and
\* for no other, its sent and received the sums of the amounts of the sent and
\* of the received records of that name (the sums before round()), its counts
\* the numbers of those records, the counts of all entries together the number
\* of records folded; and the table has one row per entry, with its name and
\* its counts.
C15_FoldsEachRecordOnce ==
    Aggregating =>
      /\ {data[k].name : k \in 1 .. Len(data)} = NamesOf(Seen)
      /\ \A k, l \in 1 .. Len(data) : data[k].name = data[l].name => k = l
      /\ \A k \in 1 .. Len(data) :
           LET sent     == Naming(Seen, data[k].name, "sent")
               received == Naming(Seen, data[k].name, "received")
           IN  /\ data[k].sent = AmountSum(Seen, sent)
               /\ data[k].received = AmountSum(Seen, received)
               /\ data[k].sent_count = Cardinality(sent)
               /\ data[k].received_count = Cardinality(received)
      /\ Counted(data) = folded
      /\ pc \in {"table", "summary"} =>
           /\ folded = Len(transactions)
           /\ Len(df) = Len(data)
           /\ \A k \in 1 .. Len(df) :
                /\ df[k].Name = data[k].name
                /\ df[k].SentCount = data[k].sent_count
                /\ df[k].ReceivedCount = data[k].received_count
                /\ df[k].Sent \in round(data[k].sent, 2)
                /\ df[k].Received \in round(data[k].received, 2)

\* C15 witness: the table of a record "sent 20.00 to Ali" and a record
\* "received 5.00 from Ali" has the one row Ali, 20.00, 5.00, -15.00, 1, 1
C15_Witness ==
    /\ Aggregating
    /\ pc = "table"
    /\ Len(transactions) = 2
    /\ Len(df) = 1
    /\ df[1].Name = <<"Ali">>
    /\ df[1].Sent = Dec(<<"2", "0">>)
    /\ df[1].Received = Dec(<<"5">>)
    /\ df[1].Net = 0 - Dec(<<"1", "5">>)
    /\ df[1].SentCount = 1
    /\ df[1].ReceivedCount = 1

\* C15 witness: three records of two counterparties, two rows
C15_WitnessTwoRows ==
    /\ Aggregating
    /\ pc = "table"
    /\ Len(transactions) = 3
    /\ Len(df) = 2
    /\ df[1].SentCount + df[1].ReceivedCount = 2

(***************************************************************************)
(* C16                                                                     *)
(***************************************************************************)
\* the orders of d things
Orders(d) == {p \in [1 .. d -> 1 .. d] : \A a, b \in 1 .. d : p[a] = p[b] => a = b}

\* the aggregate of a whole record sequence
RECURSIVE FoldedAll(_, _)
FoldedAll(m, txs) ==
    IF txs = <<>> THEN <<>>
    ELSE Folded(m, FoldedAll(m, SubSeq(txs, 1, Len(txs) - 1)), txs[Len(txs)])

\* the sums and counts of the rows of a table, whatever the order of the rows
SumFields == {"Name", "Sent", "Received", "Net", "SentCount", "ReceivedCount",
              "SentAirtime", "SentPerson", "ReceivedAirtime", "ReceivedPerson"}

SumsOf(t) == {[c \in SumFields |-> t[k][c]] : k \in 1 .. Len(t)}

\* the tables the records of this run can give when taken in any order
TablesOfOrders ==
    UNION { Tables(impl, FoldedAll(impl, [k \in 1 .. Len(transactions) |->
                                             transactions[p[k]]])) :
            p \in Orders(Len(transactions)) }

\* every amount of the run is a whole number of hundredths
WholeCents ==
    \A k \in 1 .. Len(transactions) :
        transactions[k].amount % Pow10(FracDigits - 2) = 0

\* C16: the table group_transactions or _create_dataframe has made of the
\* records has, for every counterparty, the sent, received, sub-totals, net
\* and counts of every table the same records give in any other order.
C16_SameSumsInEveryOrder ==
    (impl \in Full /\ pc = "table") =>
        \A t \in TablesOfOrders : SumsOf(t) = SumsOf(df)

\* the same of records whose amounts have no more than two fraction digits
C16_SameSumsOfWholeCents ==
    (impl \in Full /\ pc = "table" /\ WholeCents) =>
        \A t \in TablesOfOrders : SumsOf(t) = SumsOf(df)

\* three records of one counterparty, in an order that is not the only one,
\* have their table
C16_ThreeWholeCents ==
    /\ impl \in Full
    /\ pc = "table"
    /\ WholeCents
    /\ Len(transactions) = 3
    /\ Len(df) = 1
    /\ transactions[1] # transactions[3]

(***************************************************************************)
(* C17                                                                     *)
(***************************************************************************)
\* C17: in every row of the table of group_transactions and of
\* _create_dataframe, whatever the amounts of the records, Net is Received
\* minus Sent.
C17_NetIsReceivedMinusSent ==
    (impl \in Full /\ pc = "table") =>
        \A k \in 1 .. Len(df) : df[k].Net = df[k].Received - df[k].Sent

\* the same of records whose amounts have no more than two fraction digits
C17_NetOfWholeCents ==
    (impl \in Full /\ pc = "table" /\ WholeCents) =>
        \A k \in 1 .. Len(df) : df[k].Net = df[k].Received - df[k].Sent

\* a row of whole cents with a Sent, a Received and a Net that is not zero
C17_WholeCentsRow ==
    /\ impl \in Full
    /\ pc = "table"
    /\ WholeCents
    /\ \E k \in 1 .. Len(df) :
         df[k].Sent > 0 /\ df[k].Received > 0 /\ df[k].Net < 0

(***************************************************************************)
(* C18                                                                     *)
(***************************************************************************)
\* the folded records of a type and a category that name a counterparty
Of(name, type, category) ==
    {k \in Naming(Seen, name, type) : Seen[k].category = category}

\* C18: at every point of the fold, for every counterparty, sent person is the
\* sum of its sent person records and sent airtime of its sent airtime
\* records, the amount of a business record is in neither, and the sent total
\* is sent person + sent airtime + the sum of its business records; received
\* person and received airtime are the sums of the received records of the
\* two categories and the received total is their sum.
C18_SubTotalsByCategory ==
    Aggregating =>
      \A k \in 1 .. Len(data) :
        LET e == data[k]
        IN  /\ e.sent_person = AmountSum(Seen, Of(e.name, "sent", "person"))
            /\ e.sent_airtime = AmountSum(Seen, Of(e.name, "sent", "airtime"))
            /\ e.sent = e.sent_person + e.sent_airtime
                        + AmountSum(Seen, Of(e.name, "sent", "business"))
            /\ e.received_person =
                 AmountSum(Seen, Of(e.name, "received", "person"))
            /\ e.received_airtime =
                 AmountSum(Seen, Of(e.name, "received", "airtime"))
            /\ e.received = e.received_person + e.received_airtime

\* what the fold keeps: the sent total is sent person + sent airtime, sent
\* airtime the sum of the sent airtime records and sent person the sum of all
\* other sent records, business records among them; the same of received
C18_TwoSubTotals ==
    Aggregating =>
      \A k \in 1 .. Len(data) :
        LET e == data[k]
        IN  /\ e.sent_airtime = AmountSum(Seen, Of(e.name, "sent", "airtime"))
            /\ e.sent_person =
                 AmountSum(Seen, Naming(Seen, e.name, "sent")
                                 \ Of(e.name, "sent", "airtime"))
            /\ e.sent = e.sent_person + e.sent_airtime
            /\ e.received_airtime =
                 AmountSum(Seen, Of(e.name, "received", "airtime"))
            /\ e.received_person =
                 AmountSum(Seen, Of(e.name, "received", "person"))
            /\ e.received = e.received_person + e.received_airtime

\* a counterparty with an airtime record sent and an airtime record received
C18_AirtimeBothWays ==
    /\ Aggregating
    /\ \E k \in 1 .. Len(data) :
         /\ data[k].sent_airtime > 0
         /\ data[k].received_airtime > 0
         /\ data[k].sent_person = 0

\* a business record folded
C18_BusinessFolded ==
    /\ Aggregating
    /\ \E k \in 1 .. folded : transactions[k].category = "business"

(***************************************************************************)
(* C19                                                                     *)
(***************************************************************************)
\* the records of a type
Typed(txs, type) == {k \in 1 .. Len(txs) : txs[k].type = type}

\* the summary of the table of at least one record is made
Summed == impl \in Full /\ pc = "summary" /\ transactions # <<>>

\* C19: in the summary of the records of a run, total_sent is the sum of the
\* amounts of the sent records, total_received the sum of the amounts of the
\* received records, and total_net is total_received minus total_sent.
C19_SummaryTotals ==
    Summed =>
      /\ stats.total_sent = AmountSum(transactions, Typed(transactions, "sent"))
      /\ stats.total_received =
           AmountSum(transactions, Typed(transactions, "received"))
      /\ stats.total_net = stats.total_received - stats.total_sent

\* the same of records whose amounts have no more than two fraction digits
C19_TotalsOfWholeCents ==
    (Summed /\ WholeCents) =>
      /\ stats.total_sent = AmountSum(transactions, Typed(transactions, "sent"))
      /\ stats.total_received =
           AmountSum(transactions, Typed(transactions, "received"))
      /\ stats.total_net = stats.total_received - stats.total_sent

\* the totals are the sums of the columns of the table
C19_TotalsOfColumns ==
    Summed =>
      /\ stats.total_sent = ColumnSum(df, "Sent")
      /\ stats.total_received = ColumnSum(df, "Received")
      /\ stats.total_net = ColumnSum(df, "Net")

\* a summary of whole cents, of two counterparties, money both ways
C19_WholeCentsSummary ==
    /\ Summed
    /\ WholeCents
    /\ Len(df) = 2
    /\ stats.total_sent > 0
    /\ stats.total_received > 0
    /\ stats.total_net # 0

(***************************************************************************)
(* C20                                                                     *)
(***************************************************************************)
\* two quotients are the same number
SameNumber(a, b) == a.den # 0 /\ b.den # 0 /\ a.num * b.den = b.num * a.den

\* C20: the summary has an avg_transaction_amount, which is (total_sent +
\* total_received) / total_transactions for at least one record and 0 for
\* none.
C20_AverageAmount ==
    (impl \in Full /\ pc = "summary") =>
      /\ "avg_transaction_amount" \in DOMAIN stats
      /\ IF transactions # <<>>
         THEN SameNumber(stats.avg_transaction_amount,
                         Div(stats.total_sent + stats.total_received,
                             stats.total_transactions))
         ELSE stats.avg_transaction_amount.num = 0

\* what holds: the summary SAHALAnalyzer makes of at least one record has the
\* average, (total_sent + total_received) / total_transactions, the divisor
\* being the number of records
C20_AverageOfSomeRecords ==
    (Summed /\ impl = "improved") =>
      /\ "avg_transaction_amount" \in DOMAIN stats
      /\ stats.total_transactions = Len(transactions)
      /\ SameNumber(stats.avg_transaction_amount,
                    Div(stats.total_sent + stats.total_received,
                        stats.total_transactions))

\* the average of three records, sent and received
C20_AverageOfThree ==
    /\ Summed
    /\ impl = "improved"
    /\ stats.total_transactions = 3
    /\ stats.total_sent > 0
    /\ stats.total_received > 0
    /\ stats.avg_transaction_amount.den = 3

(***************************************************************************)
(* C21                                                                     *)
(***************************************************************************)
\* the rows a view of the summary keeps at most
ViewSize(m) == IF m = "improved" THEN 10 ELSE 5

\* the rows of the table with a Net below, or above, zero
Owing == {k \in 1 .. Len(df) : df[k].Net < 0}
Owed  == {k \in 1 .. Len(df) : df[k].Net > 0}

\* the names of the rows of a view
ViewNames(v) == {v[k].Name : k \in 1 .. Len(v)}

\* a view holds rows of the table at the places ks, all of them or, when they
\* are more than the view keeps, as many as it keeps
ViewOf(v, ks) ==
    /\ \A j \in 1 .. Len(v) : \E k \in ks :
           df[k].Name = v[j].Name /\ df[k].Net = v[j].Net
    /\ \A j, l \in 1 .. Len(v) : v[j].Name = v[l].Name => j = l
    /\ Len(v) = IF Cardinality(ks) > ViewSize(impl) THEN ViewSize(impl)
                ELSE Cardinality(ks)

\* C21: owe_money holds only counterparties with Net < 0, the most negative
\* first, and the most negative ones when it cannot hold all; owed_money holds
\* only counterparties with Net > 0, the most positive first; a counterparty
\* with Net = 0 is in neither and no counterparty is in both.
C21_OweMostNegativeFirst ==
    Summed =>
      /\ ViewOf(stats.owe_money, Owing)
      /\ \A j, l \in 1 .. Len(stats.owe_money) :
           j < l => stats.owe_money[j].Net <= stats.owe_money[l].Net
      /\ \A k \in Owing : \A j \in 1 .. Len(stats.owe_money) :
           df[k].Name \notin ViewNames(stats.owe_money)
             => df[k].Net >= stats.owe_money[j].Net
      /\ ViewOf(stats.owed_money, Owed)
      /\ \A j, l \in 1 .. Len(stats.owed_money) :
           j < l => stats.owed_money[j].Net >= stats.owed_money[l].Net
      /\ ViewNames(stats.owe_money) \cap ViewNames(stats.owed_money) = {}
      /\ \A k \in 1 .. Len(df) :
           df[k].Net = 0 =>
             df[k].Name \notin ViewNames(stats.owe_money)
                               \cup ViewNames(stats.owed_money)

\* what the views are: owe_money the counterparties with Net < 0, the one
\* nearest to zero first; owed_money those with Net > 0, the largest first;
\* none in both, none with Net = 0 in either
C21_OweNearestZeroFirst ==
    Summed =>
      /\ ViewOf(stats.owe_money, Owing)
      /\ \A j, l \in 1 .. Len(stats.owe_money) :
           j < l => stats.owe_money[j].Net >= stats.owe_money[l].Net
      /\ ViewOf(stats.owed_money, Owed)
      /\ \A j, l \in 1 .. Len(stats.owed_money) :
           j < l => stats.owed_money[j].Net >= stats.owed_money[l].Net
      /\ ViewNames(stats.owe_money) \cap ViewNames(stats.owed_money) = {}
      /\ \A k \in 1 .. Len(df) :
           df[k].Net = 0 =>
             df[k].Name \notin ViewNames(stats.owe_money)
                               \cup ViewNames(stats.owed_money)

\* a summary with two counterparties in owe_money, of different Net, and one
\* in owed_money
C21_TwoOwing ==
    /\ Summed
    /\ Len(stats.owe_money) = 2
    /\ stats.owe_money[1].Net # stats.owe_money[2].Net
    /\ Len(stats.owed_money) = 1

(***************************************************************************)
(* C22                                                                     *)
(***************************************************************************)
\* the loop of extract_transactions over the blocks bs from the k-th on,
\* begun with nothing but acc
RECURSIVE LoopAlone(_, _, _, _)
LoopAlone(m, bs, k, acc) ==
    IF k > Len(bs) THEN acc
    ELSE LET block == Strip(bs[k])
             date  == IF m \in Full THEN parse_date_from_text(m, block)
                      ELSE NoDate
             c     == Classify(m, block)
             ds    == IF date.some THEN Append(acc.dates, date) ELSE acc.dates
         IN  IF c.kind = "raise" THEN [acc EXCEPT !.raised = TRUE, !.dates = ds]
             ELSE LoopAlone(m, bs, k + 1,
                    [raised |-> FALSE,
                     transactions |->
                       IF c.kind = "tx"
                       THEN Append(acc.transactions,
                                   Record(m, c, k, block, date))
                       ELSE acc.transactions,
                     unmatched |->
                       IF c.kind = "none" THEN Append(acc.unmatched, block)
                       ELSE acc.unmatched,
                     dates |-> ds])

\* what a process that has run nothing before makes of the text t: whether it
\* raises, and the tuple it returns if it does not
Alone(m, t) ==
    IF t = <<>> THEN [raised |-> FALSE, ret |-> EarlyReturn(m)]
    ELSE LET l == LoopAlone(m, SplitBlocks(t), 1,
                            [raised |-> FALSE, transactions |-> <<>>,
                             unmatched |-> <<>>, dates |-> <<>>])
         IN  [raised |-> l.raised,
              ret |-> <<l.transactions, l.unmatched, DateRange(l.dates)>>]

\* C22: a run of a process that has run other texts before gives the records,
\* the unmatched list, the date span and the per-counterparty table that the
\* text gives when it is processed alone.
C22_RunsShareNoState ==
    /\ pc = "returned" => ~Alone(impl, text).raised /\ ret = Alone(impl, text).ret
    /\ pc = "raised" =>
         \/ Alone(impl, text).raised
         \/ Len(Alone(impl, text).ret) # Unpacked(impl)
    /\ pc = "table" =>
         /\ transactions = Alone(impl, text).ret[1]
         /\ df \in Tables(impl, FoldedAll(impl, Alone(impl, text).ret[1]))

\* a run has returned one record and another span than the earlier run, whose
\* table of two rows and whose summary are still there
C22_ReturnedAfterAnother ==
    /\ pc = "returned"
    /\ Len(df) = 2
    /\ stats # <<>>
    /\ Len(ret[1]) = 1
    /\ ~ret[3].found

\* a run has built a table of one row while the summary of an earlier run, of
\* two counterparties, is still there
C22_TableAfterAnother ==
    /\ pc = "table"
    /\ Len(df) = 1
    /\ stats # <<>>
    /\ Len(stats.top_senders) + Len(stats.top_receivers) > 2

(***************************************************************************)
(* C23                                                                     *)
(***************************************************************************)
\* the run has returned what callers get: the extraction of clean_input(raw)
Piped == pc = "returned" /\ impl \in Full /\ text = clean_input(impl, raw)

\* the match of the banner of the block b, written with the separator of the
\* service or with that of the module's pattern
WrittenBanner(b) ==
    LET m == Search(BannerFormat, b)
    IN  IF m.ok THEN m ELSE Search(DatePat1(impl), b)

\* the section b has a transaction, a banner of valid calendar values with
\* its hour in 1 .. 12, and no Tar: stamp
BannerSection(b) ==
    /\ WrittenBanner(b).ok
    /\ IntOf(WrittenBanner(b).g[5]) \in 1 .. 12
    /\ WrittenBannerDate(b).some
    /\ ~Search(DatePat2, b).ok
    /\ Classify(impl, b).kind = "tx"

\* the sections of the text the caller holds
RawSections == SplitBlocks(raw)

\* C23: for a section with a well-formed banner, a transaction and no Tar:
\* stamp, the pipeline (clean_input on the whole text, then
\* extract_transactions) gives a record whose date is the banner's datetime,
\* and the date span counts it.
C23_BannerDateThroughPipeline ==
    Piped =>
      \A k \in 1 .. Len(RawSections) :
        BannerSection(RawSections[k]) =>
          /\ \E r \in 1 .. Len(ret[1]) :
               ret[1][r].date = WrittenBannerDate(RawSections[k])
          /\ ret[3].found
          /\ DateLeq(ret[3].earliest_date, WrittenBannerDate(RawSections[k]))
          /\ DateLeq(WrittenBannerDate(RawSections[k]), ret[3].latest_date)

\* what the pipeline gives: a record of a section without a Tar: stamp has
\* no date, with a banner or without, and the span counts the Tar: stamps
\* only, in a text where no banner stands within the pieces of another one
C23_NoDateWithoutTar ==
    Piped =>
      /\ \A r \in 1 .. Len(ret[1]) :
           ~Search(DatePat2, ret[1][r].raw_block).ok => ~ret[1][r].date.some
      /\ (Len(ret) = 3 /\ raw \notin Nested(impl)) =>
           ret[3].total_dates_found
           <= Cardinality({k \in 1 .. Len(RawSections) :
                               Search(DatePat2, RawSections[k]).ok})

\* the pipeline has returned the record of a section with a banner as the
\* service writes it and no Tar: stamp
C23_BannerSectionPiped ==
    /\ Piped
    /\ raw # text
    /\ Len(RawSections) = 1
    /\ BannerSection(RawSections[1])
    /\ Search(BannerFormat, RawSections[1]).ok
    /\ Len(ret[1]) = 1

(***************************************************************************)
(* C24                                                                     *)
(***************************************************************************)
\* the outcomes of the rules on the sections of the text t, one after the
\* other
Classifications(m, t) ==
    [k \in 1 .. Len(SplitBlocks(t)) |-> Classify(m, SplitBlocks(t)[k])]

\* the sentinels and the phrases of the text t, one after the other
Kept(t) == SelectSeq(t, LAMBDA tok : tok \in Phrases \cup {SENTINEL})

\* C24: clean_input removes banner text only: the sections of
\* clean_input(text) are classified as those of the text, one after the
\* other, and no sentinel and no phrase of a transaction of the text is
\* missing from clean_input(text).
C24_CleanRemovesBannersOnly ==
    [][ CleanInput =>
          /\ Classifications(impl, text') = Classifications(impl, raw)
          /\ Kept(text') = Kept(raw) ]_vars

\* what clean_input keeps: when it removes no sentinel and no phrase, the
\* sections are classified as before
C24_SameUnlessPhraseRemoved ==
    [][ (CleanInput /\ Kept(text') = Kept(raw)) =>
          Classifications(impl, text') = Classifications(impl, raw) ]_vars

\* clean_input has removed a piece with a sentinel and a transaction in it
C24_SectionRemoved ==
    /\ pc = "call"
    /\ text = clean_input(impl, raw)
    /\ Len(Classifications(impl, raw)) = 2
    /\ Len(Classifications(impl, text)) = 1

(***************************************************************************)
(* C25                                                                     *)
(***************************************************************************)
\* C25: every record has a counterparty that is not the empty string, also
\* the record of a person rule whose captured name is blank.
C25_NonEmptyCounterparty ==
    \A k \in 1 .. Len(transactions) : transactions[k].name # <<>>

\* what the records have: the captured name without the blanks around it,
\* which is the empty string for a captured name of blanks
C25_NameIsCaptureStripped ==
    \A k \in 1 .. Len(transactions) :
      LET b == transactions[k].raw_block
          m == Search(Canonical[IF transactions[k].type = "sent" THEN 1
                                ELSE 3].pat, b)
      IN  /\ m.ok
          /\ transactions[k].name = Strip(m.g[2])

\* a record of a person rule with the empty string as its counterparty has
\* been returned
C25_BlankNameRecorded ==
    /\ pc = "returned"
    /\ \E k \in 1 .. Len(ret[1]) :
         ret[1][k].name = <<>> /\ ret[1][k].category = "person"

(***************************************************************************)
(* C26                                                                     *)
(***************************************************************************)
\* the other of the two modules
Other(m) == IF m = "improved" THEN "dashboard" ELSE "improved"

\* the text t has no "Kusoo dhawaaw" and every amount a canonical rule finds
\* in a block of it is a decimal greater than 0
Comparable(t) ==
    /\ \A j \in 1 .. Len(t) : t[j] # "Kusoo dhawaaw"
    /\ \A k \in 1 .. Len(SplitBlocks(t)) :
         \A rule \in 1 .. Len(Canonical) : ~BadAmount(rule, SplitBlocks(t)[k])

\* the fields of the records that both modules have
Common(recs) ==
    [k \in 1 .. Len(recs) |->
       [type |-> recs[k].type, name |-> recs[k].name,
        amount |-> recs[k].amount, category |-> recs[k].category,
        date |-> recs[k].date]]

\* the tuples a and b have the same records, unmatched blocks and date span
SameResult(a, b) ==
    /\ Len(a) = 3 /\ Len(b) = 3
    /\ Common(a[1]) = Common(b[1])
    /\ a[2] = b[2]
    /\ a[3] = b[3]

\* C26: for a text with no "Kusoo dhawaaw" block in which every amount a
\* rule matches is a decimal greater than 0, the extractors of
\* sahal_improved.py and sahal_dashboard.py return the same records (type,
\* name, amount, category, date), the same unmatched list and the same date
\* span.
C26_ExtractorsAgree ==
    (pc = "returned" /\ impl \in Full /\ Comparable(text)) =>
      /\ ~Alone(Other(impl), text).raised
      /\ SameResult(ret, Alone(Other(impl), text).ret)

\* the text has a banner that the pattern of one of the two modules matches
OwnBanner(t) == \E m \in Full : Search(DatePat1(m), t).ok

\* where the extractors agree: on the texts, other than the empty one, that
\* have no banner written with the separator of one module's pattern
C26_AgreeWithoutOwnBanner ==
    (pc = "returned" /\ impl \in Full /\ Comparable(text) /\ text # <<>>
       /\ ~OwnBanner(text)) =>
      /\ ~Alone(Other(impl), text).raised
      /\ SameResult(ret, Alone(Other(impl), text).ret)

\* an extractor has returned a record with the date of a banner that the
\* other module's pattern does not match
C26_BannerOfOneModule ==
    /\ pc = "returned"
    /\ impl \in Full
    /\ Comparable(text)
    /\ Len(ret[1]) = 1
    /\ ret[1][1].date.some
    /\ ~Search(DatePat2, text).ok
    /\ ~Search(DatePat1(Other(impl)), text).ok

(***************************************************************************)
(* C27                                                                     *)
(***************************************************************************)
\* the text t, cleaned, has at least one transaction for the dashboard
HasRecords(t) ==
    LET a == Alone("dashboard", clean_input("dashboard", t))
    IN  ~a.raised /\ Len(a.ret) = 3 /\ a.ret[1] # <<>>

\* a submitted text with a transaction is pending
Submitted == pending_raw_data # <<>> /\ HasRecords(pending_raw_data)

\* C27: every submitted text with at least one transaction, once it is
\* stored in pending_raw_data, eventually reaches the summary: the run that
\* parses it goes on to calculate_summary_stats.
C27_SubmittedReachesSummary == Submitted ~> (pc = "summary")

\* where a submitted text gets to: its table is made and the run ends at the
\* "Please upload" prompt
C27_SubmittedReachesPrompt == Submitted ~> (pc = "prompt" /\ df # <<>>)

\* the RAW Data option never gets to calculate_summary_stats
C27_NoSummary == pc # "summary"

\* the run that parsed a submitted text has ended at the prompt
C27_ParsedThenPrompt ==
    /\ pc = "prompt"
    /\ df # <<>>
    /\ HasRecords(raw)
    /\ pending_raw_data = <<>>

=============================================================================
